---- MODULE Spec2Model ----
(***************************************************************************)
(* A model of TsImporter (ts_importer.ts) and of replaceImports            *)
(* (replace_imports.ts): the recursive module transformer with its memory  *)
(* cache, its map of transformed modules, its in-flight registry and its   *)
(* disk cache, and the import-map lookup of #createOptimizedReplacer.      *)
(*                                                                         *)
(* Strings are sequences of one-character strings, so that startsWith,     *)
(* slice and concatenation are computed as JavaScript computes them.       *)
(***************************************************************************)
EXTENDS Naturals, Sequences, FiniteSets, TLC

\* ------------------------------------------------------------------ bounds
\* Top-level import() calls made on the one TsImporter instance.
MaxCalls == 2
\* I/O or parser failures injected on top of the missing-file failures.
MaxFaults == 1
\* Transformations ever started on the instance (caps runaway recursion).
MaxTasks == 6
\* Longest import-map "imports" table and longest "scopes" table drawn for
\* the lookup specification.
MaxDirect == 2
MaxScopes == 2

\* ------------------------------------------------------------------ strings
Min(S) == CHOOSE x \in S : \A y \in S : x <= y

\* String.prototype.startsWith
StartsWith(s, p) == Len(p) <= Len(s) /\ SubSeq(s, 1, Len(p)) = p

\* String.prototype.slice(n)
Slice(s, n) == SubSeq(s, n + 1, Len(s))

\* All sequences over S of length at most n.
SeqsUpTo(S, n) == UNION {[1..k -> S] : k \in 0..n}

FilePfx == <<"f", "i", "l", "e", ":", "/", "/">>
HttpPfx == <<"h", "t", "t", "p", ":", "/", "/">>
HttpsPfx == <<"h", "t", "t", "p", "s", ":", "/", "/">>
JsrPfx == <<"j", "s", "r", ":">>
NpmPfx == <<"n", "p", "m", ":">>

\* ------------------------------------------------------------------ import-map lookup
\* A key test that accepts every specifier the key is a prefix of.
KeyMatchesAnyPrefix(key, specifier) == StartsWith(specifier, key)

\* The test of one table key against a specifier (ts_importer.ts, the two
\* identical conditions of the replacer).
KeyMatches(key, specifier) ==
    specifier = key \/ StartsWith(specifier, key \o <<"/">>)

\* value + specifier.slice(key.length)
ApplyEntry(entry, specifier) == entry[2] \o Slice(specifier, Len(entry[1]))

\* Indices of the entries of a table whose key matches.
Matching(entries, specifier) ==
    {i \in 1..Len(entries) : KeyMatches(entries[i][1], specifier)}

\* Indices of the scopes that the loop over scopeEntries returns from: the
\* module is under the scope and one of the scope's entries matches.
ScopeHits(urlString, scopeEntries, specifier) ==
    {i \in 1..Len(scopeEntries) :
        /\ StartsWith(urlString, scopeEntries[i][1])
        /\ Matching(scopeEntries[i][2], specifier) # {}}

\* A replacer that fails to pass an unmatched specifier through.
ReplacerNoPassThrough(urlString, importEntries, scopeEntries, specifier) ==
    IF Matching(importEntries, specifier) # {}
    THEN ApplyEntry(importEntries[Min(Matching(importEntries, specifier))], specifier)
    ELSE IF ScopeHits(urlString, scopeEntries, specifier) # {}
    THEN LET s == scopeEntries[Min(ScopeHits(urlString, scopeEntries, specifier))][2]
         IN  ApplyEntry(s[Min(Matching(s, specifier))], specifier)
    ELSE <<>>

\* A replacer that prefers the matching direct entry with the longest key.
ReplacerLongestKey(urlString, importEntries, scopeEntries, specifier) ==
    IF Matching(importEntries, specifier) # {}
    THEN LET m == Matching(importEntries, specifier)
             best == CHOOSE i \in m : \A j \in m :
                        \/ Len(importEntries[i][1]) > Len(importEntries[j][1])
                        \/ (Len(importEntries[i][1]) = Len(importEntries[j][1]) /\ i <= j)
         IN  ApplyEntry(importEntries[best], specifier)
    ELSE IF ScopeHits(urlString, scopeEntries, specifier) # {}
    THEN LET s == scopeEntries[Min(ScopeHits(urlString, scopeEntries, specifier))][2]
         IN  ApplyEntry(s[Min(Matching(s, specifier))], specifier)
    ELSE specifier

\* The function returned by #createOptimizedReplacer, applied to specifier:
\* the direct entries in order, then the scopes in order, then pass-through.
createOptimizedReplacer(urlString, importEntries, scopeEntries, specifier) ==
    IF Matching(importEntries, specifier) # {}
    THEN ApplyEntry(importEntries[Min(Matching(importEntries, specifier))], specifier)
    ELSE IF ScopeHits(urlString, scopeEntries, specifier) # {}
    THEN LET s == scopeEntries[Min(ScopeHits(urlString, scopeEntries, specifier))][2]
         IN  ApplyEntry(s[Min(Matching(s, specifier))], specifier)
    ELSE specifier

\* #isRelativeOrFileUrl
isRelativeOrFileUrl(specifier) ==
    \/ (Len(specifier) > 0 /\ specifier[1] \in {".", "/"})
    \/ StartsWith(specifier, FilePfx)

\* #isHttpUrl
isHttpUrl(specifier) ==
    StartsWith(specifier, HttpPfx) \/ StartsWith(specifier, HttpsPfx)

\* #isJsr
isJsr(specifier) == StartsWith(specifier, JsrPfx)

\* #isNpm
isNpm(specifier) == StartsWith(specifier, NpmPfx)

\* ------------------------------------------------------------------ module text
\* A module's text: its body, whether it still carries type annotations, its
\* import/export statements in order (written specifier and statement form),
\* its use of import.meta, whether a comment or a string of it holds text
\* that reads like an import statement, and the banner comment naming the
\* original URL.
Text(body, typed, imports, meta) ==
    [body |-> body, typed |-> typed, imports |-> imports, meta |-> meta,
     quoted |-> FALSE, metaUrl |-> <<>>, banner |-> <<>>]

\* The shapes of an import/export statement: a static import on one line,
\* a side-effect import, a re-export on one line, a statement spread over
\* several lines, and a dynamic import of a string literal.
Forms == {"line", "side", "reexport", "multi", "dynamic"}

Imp(s) == [s |-> s, form |-> "line"]
ImpForm(s, form) == [s |-> s, form |-> form]

NoText == Text("", FALSE, <<>>, "none")

\* The instance's tsTranspileMode option.
tsTranspileMode == "strip"

\* A choice of mode in which the environment variable comes first.
TranspileModeEnvFirst(optMode, env) ==
    IF env # <<>> THEN env[1] ELSE IF optMode # <<>> THEN optMode[1] ELSE "strip"

\* options?.mode ?? Deno.env.get("DENO_TS_IMPORTER_TRANSPILE_MODE") ?? "strip":
\* an absent option or variable is <<>>, a present one <<value>>.
TranspileMode(optMode, env) ==
    IF optMode # <<>> THEN optMode[1] ELSE IF env # <<>> THEN env[1] ELSE "strip"

\* A transpiler that removes the type annotations in every mode.
transpileAlwaysStrips(code, mode) == [code EXCEPT !.typed = FALSE]

\* transpileTypeScript: passthrough returns the text, the other modes remove
\* the type annotations.
transpileTypeScript(code, mode) ==
    IF mode = "passthrough" THEN code ELSE [code EXCEPT !.typed = FALSE]

\* A quick check that sends every module through the two passes.
hasImportsAlways(code) == TRUE

\* The shapes that /(?:import|export)\s+(?:.*\s+from\s+|)['"]/m matches: the
\* keyword, white space, and either the quote at once or, on the same line,
\* "from" and the quote. No line break can stand between the keyword's
\* clause and "from", and import( has no white space after the keyword.
MatchedForms == {"line", "side", "reexport"}

\* #hasImports: the regular expression is tried on the whole text, so it
\* also finds such a shape inside a comment or a string.
hasImports(code) ==
    code.quoted \/ \E i \in 1..Len(code.imports) : code.imports[i].form \in MatchedForms

\* A check that never finds a reference to import.meta.
hasImportMetaUrlNever(code) == FALSE

\* #hasImportMetaUrl
hasImportMetaUrl(code) == code.meta = "ref"

\* replaceImportMeta: import.meta.url becomes the literal original URL.
replaceImportMeta(code, urlString) ==
    IF code.meta = "ref"
    THEN [code EXCEPT !.meta = "lit", !.metaUrl = urlString]
    ELSE code

\* createOriginalUrlComment(urlString) + code
WithBanner(code, urlString) == [code EXCEPT !.banner = urlString]

\* ------------------------------------------------------------------ URLs
Max(S) == CHOOSE x \in S : \A y \in S : x >= y

\* The directory part of an absolute URL, with its final slash.
DirOf(url) == SubSeq(url, 1, Max({i \in 1..Len(url) : url[i] = "/"}))

\* new URL(specifier, base).href for the specifiers the model uses: an
\* absolute URL, an absolute path, or a path starting with "./".
ResolveUrl(specifier, base) ==
    IF specifier # <<>> /\ specifier[1] = "/" THEN FilePfx \o specifier
    ELSE IF StartsWith(specifier, <<".", "/">>) THEN DirOf(base) \o Slice(specifier, 2)
    ELSE specifier

File(n) == FilePfx \o <<"/", n>>
Rel(n) == <<".", "/", n>>
BareX == <<"@", "x">>
BareR == <<"@", "r">>
BareJ == <<"@", "j">>
RemoteR == HttpsPfx \o <<"h", "/", "r">>
RemoteW == HttpsPfx \o <<"h", "/", "w">>
RegistryJ == JsrPfx \o <<"j">>

\* ------------------------------------------------------------------ cache key
RECURSIVE SerImports(_)
SerImports(imps) ==
    IF imps = <<>> THEN <<>>
    ELSE <<"'">> \o Head(imps).s \o <<"'", Head(imps).form>> \o SerImports(Tail(imps))

RECURSIVE SerEntries(_)
SerEntries(entries) ==
    IF entries = <<>> THEN <<>>
    ELSE <<"{">> \o Head(entries)[1] \o <<">">> \o Head(entries)[2] \o <<"}">>
         \o SerEntries(Tail(entries))

RECURSIVE SerScopes(_)
SerScopes(scopes) ==
    IF scopes = <<>> THEN <<>>
    ELSE <<"[">> \o Head(scopes)[1] \o <<":">> \o SerEntries(Head(scopes)[2]) \o <<"]">>
         \o SerScopes(Tail(scopes))

\* getCachePath: a path derived from the text and the import map.
getCachePath(urlString, code, importMap) ==
    <<code.body, IF code.typed THEN "T" ELSE "J", IF code.quoted THEN "Q" ELSE "N",
      code.meta>> \o code.metaUrl
    \o <<"!">> \o code.banner \o <<"!">> \o SerImports(code.imports)
    \o <<"#">> \o SerEntries(importMap.imports) \o <<"#">> \o SerScopes(importMap.scopes)

\* The instance's cache directory.
CacheDir == <<"/", "$", "/">>

\* A cache URL that also carries the module's original URL.
getCacheUrlWithLocation(urlString, code, importMap) ==
    FilePfx \o CacheDir \o urlString \o getCachePath(urlString, code, importMap)

\* #getCacheUrl
getCacheUrl(urlString, code, importMap) ==
    FilePfx \o CacheDir \o getCachePath(urlString, code, importMap)

IsCacheUrl(s) == StartsWith(s, FilePfx \o CacheDir)

\* ------------------------------------------------------------------ state
VARIABLES
    cache,                   \* #cache: specifier -> loaded module
    transformedModules,      \* #transformedModules: URL -> cache URL
    processingModules,       \* #processingModules
    transformationPromises,  \* #transformationPromises: URL -> promise
    tasks,                   \* every transformation promise ever created
    calls,                   \* the top-level import() calls
    disk,                    \* the cache directory: cache URL -> text
    files,                   \* the original modules: URL -> text
    faults,                  \* failures injected so far
    rUrl, rImports, rScopes, rSpec, rOut, rDone, \* one lookup and its result
    dInst, dCall, dConfig, dAuto, dUrl,          \* one choice of the effective
    dLooked, dOut, dDone,                        \* import map and its result
    xOptMode, xEnv, xCode, xMode, xOut, xDone,   \* one transpileTypeScript call
    denoGraphInitialized, initializationPromise, \* replace_imports.ts module state
    initCalls, callers,                          \* init() calls, replaceImports callers
    aSource, aReplacements, aOut, aDone          \* one applyReplacements call

engineVars == <<cache, transformedModules, processingModules,
                transformationPromises, tasks, calls, disk, files, faults>>
lookupVars == <<rUrl, rImports, rScopes, rSpec, rOut, rDone>>
discoverVars == <<dInst, dCall, dConfig, dAuto, dUrl, dLooked, dOut, dDone>>
transpileVars == <<xOptMode, xEnv, xCode, xMode, xOut, xDone>>
initVars == <<denoGraphInitialized, initializationPromise, initCalls, callers>>
applyVars == <<aSource, aReplacements, aOut, aDone>>
\* What a step of the engine leaves alone.
otherVars == <<lookupVars, discoverVars, transpileVars, initVars, applyVars>>
vars == <<cache, transformedModules, processingModules,
          transformationPromises, tasks, calls, disk, files, faults,
          rUrl, rImports, rScopes, rSpec, rOut, rDone,
          dInst, dCall, dConfig, dAuto, dUrl, dLooked, dOut, dDone,
          xOptMode, xEnv, xCode, xMode, xOut, xDone,
          denoGraphInitialized, initializationPromise, initCalls, callers,
          aSource, aReplacements, aOut, aDone>>

\* ------------------------------------------------------------------ inputs
ImportMap(imports, scopes) == [imports |-> imports, scopes |-> scopes]

\* The import maps a call may pass: the empty one, and one mapping "@x".
MapEmpty == ImportMap(<<>>, <<>>)
\* A table with a local, a remote and a registry target.
MapX == ImportMap(<< <<BareX, Rel("c")>>, <<BareR, RemoteR>>, <<BareJ, RegistryJ>> >>, <<>>)
Maps == {MapEmpty, MapX}

\* The module graphs: a two-module cycle whose first module also imports a
\* mapped specifier, a three-module cycle, and a module with two
\* dependencies of which one does not exist.
GraphCycle2 ==
    (File("a") :> Text("a", TRUE, <<Imp(Rel("b")), Imp(BareX)>>, "none")) @@
    (File("b") :> Text("b", TRUE, <<Imp(Rel("a"))>>, "none")) @@
    (File("c") :> Text("c", TRUE, <<>>, "none"))
GraphCycle3 ==
    (File("a") :> Text("a", TRUE, <<Imp(Rel("b"))>>, "ref")) @@
    (File("b") :> Text("b", TRUE, <<Imp(Rel("c"))>>, "none")) @@
    (File("c") :> Text("c", TRUE, <<Imp(Rel("a"))>>, "none"))
GraphFan ==
    (File("a") :> Text("a", TRUE, <<Imp(Rel("b")), Imp(Rel("d"))>>, "none")) @@
    (File("b") :> Text("b", TRUE, <<>>, "none"))
\* Two byte-identical modules at different locations, each with the same
\* two independent dependencies, which are byte-identical too and read
\* import.meta.url.
GraphTwins ==
    (File("a") :> Text("t", TRUE, <<Imp(Rel("c")), Imp(Rel("d"))>>, "none")) @@
    (File("b") :> Text("t", TRUE, <<Imp(Rel("c")), Imp(Rel("d"))>>, "none")) @@
    (File("c") :> Text("u", TRUE, <<>>, "ref")) @@
    (File("d") :> Text("u", TRUE, <<>>, "ref"))
\* Modules whose only import is spread over several lines (a) or is a
\* dynamic import (d), and a module without imports that holds the text of
\* an import statement in a string (b).
GraphShapes ==
    (File("a") :> Text("a", TRUE, <<ImpForm(Rel("b"), "multi")>>, "none")) @@
    (File("b") :> [Text("b", TRUE, <<>>, "none") EXCEPT !.quoted = TRUE]) @@
    (File("d") :> Text("d", TRUE, <<ImpForm(Rel("b"), "dynamic")>>, "none"))
\* A module that imports two bare specifiers, which a table may send to a
\* remote module and to a registry, and a remote module as written; the
\* remote module of the table can be fetched.
GraphRemote ==
    (File("a") :> Text("a", TRUE, <<Imp(BareR), Imp(BareJ), Imp(RemoteW)>>, "none")) @@
    (RemoteR :> Text("r", TRUE, <<>>, "none"))
Graphs == {GraphCycle2, GraphCycle3, GraphFan}
\* The graphs whose modules have independent dependencies, and the graph of
\* the statement shapes, and the graph with remote targets.
FanGraphs == {GraphFan, GraphTwins, GraphShapes, GraphRemote}

\* The modules a top-level call may ask for; file:///d does not exist in the
\* cycles and in the graph with a missing dependency.
TopLevel == {File("a"), File("b"), File("d")}

\* ------------------------------------------------------------------ replaceImports
\* isRemoteSpecifier (http:, https:)
isRemoteSpecifier(specifier) ==
    StartsWith(specifier, <<"h", "t", "t", "p", ":">>)
    \/ StartsWith(specifier, <<"h", "t", "t", "p", "s", ":">>)

\* isJsrOrNpmSpecifier
isJsrOrNpmSpecifier(specifier) == isJsr(specifier) \/ isNpm(specifier)

\* The dependencies deno graph reports: the distinct specifiers of the text,
\* in the order of their first occurrence.
RECURSIVE Distinct(_)
Distinct(seq) ==
    IF seq = <<>> THEN <<>>
    ELSE LET front == Distinct(SubSeq(seq, 1, Len(seq) - 1))
             last == seq[Len(seq)]
         IN  IF \E i \in 1..Len(front) : front[i] = last THEN front
             ELSE Append(front, last)

Dependencies(code) == Distinct([i \in 1..Len(code.imports) |-> code.imports[i].s])

\* Where denoLoader.resolve and cacheInfo place a jsr:/npm: module.
DenoResolve(specifier) == FilePfx \o <<"/", "~", "/">> \o specifier

\* The dependencies that collectReplacements hands to the replacer.
Replaced(code) ==
    SelectSeq(Dependencies(code),
              LAMBDA d : ~isRemoteSpecifier(d) /\ ~isJsrOrNpmSpecifier(d))

\* The lookup of a specifier in a Map kept as a sequence of <<key, value>>,
\* with the given default.
MapGet(pairs, key, default) ==
    IF \E i \in 1..Len(pairs) : pairs[i][1] = key
    THEN pairs[Max({i \in 1..Len(pairs) : pairs[i][1] = key})][2]
    ELSE default

\* replaceImports(urlString, code, replacer) where the replacer is the Map
\* lookup "pairs.get(specifier) || specifier", or, for a jsr:/npm: specifier,
\* the location the Deno loader gives.
replaceImports(code, pairs) ==
    [code EXCEPT !.imports =
        [i \in 1..Len(code.imports) |->
            LET d == code.imports[i].s
            IN  [code.imports[i] EXCEPT !.s =
                    IF isRemoteSpecifier(d) THEN d
                    ELSE IF isJsrOrNpmSpecifier(d) THEN DenoResolve(d)
                    ELSE MapGet(pairs, d, d)]]]

\* applyImportMapToSpecifier of the module urlString under importMap.
applyImportMapToSpecifier(urlString, importMap, specifier) ==
    createOptimizedReplacer(urlString, importMap.imports, importMap.scopes, specifier)

\* originalToTransformedSpecifiers after the first pass, in insertion order.
OriginalToTransformed(urlString, importMap, code) ==
    LET deps == Replaced(code)
    IN  [i \in 1..Len(deps) |->
            <<deps[i], applyImportMapToSpecifier(urlString, importMap, deps[i])>>]

\* allLocalSpecifiers after the first pass.
AllLocalSpecifiers(code) ==
    {d \in {Replaced(code)[i] : i \in 1..Len(Replaced(code))} : isRelativeOrFileUrl(d)}

\* ------------------------------------------------------------------ #transformModule
\* The instance's three maps and the promises created so far, as one value.
Cur == [tm |-> transformedModules, pm |-> processingModules,
        tp |-> transformationPromises, tasks |-> tasks]

Commit(E) ==
    \E e \in {E} :
        /\ transformedModules' = e.tm
        /\ processingModules' = e.pm
        /\ transformationPromises' = e.tp
        /\ tasks' = e.tasks

\* A transformation whose source read has just been issued.
NewTask(urlString, importMap) ==
    [url |-> urlString, map |-> importMap, pc |-> "read", code |-> NoText,
     cacheUrl |-> <<>>, o2t |-> <<>>, waits |-> <<>>, t2c |-> <<>>,
     status |-> "pending", value |-> <<>>]

\* A memoization check that never finds the record.
NeverTransformed(tm, urlString) == FALSE

\* "Check if already transformed"
AlreadyTransformed(tm, urlString) == urlString \in DOMAIN tm

\* A #transformModule without the in-flight check: a module without a
\* record is transformed again by every request.
transformModuleNoInFlight(E, urlString, importMap) ==
    IF AlreadyTransformed(E.tm, urlString)
    THEN [E |-> E, tid |-> 0, val |-> E.tm[urlString]]
    ELSE LET n == Len(E.tasks) + 1
         IN  [E |-> [E EXCEPT !.pm = @ \cup {urlString},
                              !.tp = (urlString :> n) @@ @,
                              !.tasks = Append(@, NewTask(urlString, importMap))],
              tid |-> n, val |-> <<>>]

\* A #transformModule that answers a request for a module in flight with
\* the module's own URL instead of the pending result.
transformModuleNoJoin(E, urlString, importMap) ==
    IF AlreadyTransformed(E.tm, urlString)
    THEN [E |-> E, tid |-> 0, val |-> E.tm[urlString]]
    ELSE IF urlString \in E.pm
    THEN [E |-> E, tid |-> 0, val |-> urlString]
    ELSE LET n == Len(E.tasks) + 1
         IN  [E |-> [E EXCEPT !.pm = @ \cup {urlString},
                              !.tp = (urlString :> n) @@ @,
                              !.tasks = Append(@, NewTask(urlString, importMap))],
              tid |-> n, val |-> <<>>]

\* A #transformModule that looks for a pending result before it looks for
\* the record: a module in flight is awaited even when it is registered.
transformModuleInFlightFirst(E, urlString, importMap) ==
    IF urlString \in E.pm /\ urlString \in DOMAIN E.tp
    THEN [E |-> E, tid |-> E.tp[urlString], val |-> <<>>]
    ELSE IF AlreadyTransformed(E.tm, urlString)
    THEN [E |-> E, tid |-> 0, val |-> E.tm[urlString]]
    ELSE LET n == Len(E.tasks) + 1
         IN  [E |-> [E EXCEPT !.pm = @ \cup {urlString},
                              !.tp = (urlString :> n) @@ @,
                              !.tasks = Append(@, NewTask(urlString, importMap))],
              tid |-> n, val |-> <<>>]

\* A #transformModule that marks the module as in flight and leaves the
\* pending result out of the map.
transformModuleNoPromiseEntry(E, urlString, importMap) ==
    IF AlreadyTransformed(E.tm, urlString)
    THEN [E |-> E, tid |-> 0, val |-> E.tm[urlString]]
    ELSE IF urlString \in E.pm
    THEN IF urlString \in DOMAIN E.tp
         THEN [E |-> E, tid |-> E.tp[urlString], val |-> <<>>]
         ELSE [E |-> E, tid |-> 0, val |-> urlString]
    ELSE LET n == Len(E.tasks) + 1
         IN  [E |-> [E EXCEPT !.pm = @ \cup {urlString},
                              !.tasks = Append(@, NewTask(urlString, importMap))],
              tid |-> n, val |-> <<>>]

\* The synchronous part of #transformModule(urlString, importMap): what it
\* returns (a value, or the promise of transformation tid) and the state it
\* leaves.
transformModule(E, urlString, importMap) ==
    IF AlreadyTransformed(E.tm, urlString)
    THEN [E |-> E, tid |-> 0, val |-> E.tm[urlString]]
    ELSE IF urlString \in E.pm
    THEN IF urlString \in DOMAIN E.tp
         THEN [E |-> E, tid |-> E.tp[urlString], val |-> <<>>]
         ELSE [E |-> E, tid |-> 0, val |-> urlString]
    ELSE LET n == Len(E.tasks) + 1
         IN  [E |-> [E EXCEPT !.pm = @ \cup {urlString},
                              !.tp = (urlString :> n) @@ @,
                              !.tasks = Append(@, NewTask(urlString, importMap))],
              tid |-> n, val |-> <<>>]

\* A finally block that leaves the in-flight marker behind.
FinallyKeepsMarker(E, urlString) ==
    LET tp == E.tp
    IN  [E EXCEPT !.tp = [u \in (DOMAIN tp) \ {urlString} |-> tp[u]]]

\* A finally block that also forgets the module's transformation record.
FinallyDropsRecord(E, urlString) ==
    LET tp == E.tp
        tm == E.tm
    IN  [E EXCEPT !.pm = @ \ {urlString},
                  !.tp = [u \in (DOMAIN tp) \ {urlString} |-> tp[u]],
                  !.tm = [u \in (DOMAIN tm) \ {urlString} |-> tm[u]]]

\* A finally block that leaves the pending result in the map.
FinallyKeepsPromise(E, urlString) == [E EXCEPT !.pm = @ \ {urlString}]

\* The finally block: both in-flight entries are removed.
Finally(E, urlString) ==
    LET tp == E.tp
    IN  [E EXCEPT !.pm = @ \ {urlString},
                  !.tp = [u \in (DOMAIN tp) \ {urlString} |-> tp[u]]]

Settle(E, t, status, value) ==
    [E EXCEPT !.tasks[t].status = status, !.tasks[t].value = value,
              !.tasks[t].pc = "done"]

\* ------------------------------------------------------------------ #processDependenciesParallel
shouldProcess(specifier) ==
    isRelativeOrFileUrl(specifier) \/ isHttpUrl(specifier)
    \/ isJsr(specifier) \/ isNpm(specifier)

SetToSeq(S) ==
    CHOOSE f \in [1..Cardinality(S) -> S] : \A i, j \in 1..Cardinality(S) : f[i] = f[j] => i = j

\* The specifiers #processDependency is called with, in call order: the
\* transformed specifiers worth processing, then the local specifiers that
\* the first pass did not record.
ToProcess(o2t, locals) ==
    LET transformed == [i \in 1..Len(o2t) |-> o2t[i][2]]
        keys == {o2t[i][1] : i \in 1..Len(o2t)}
    IN  SelectSeq(transformed, shouldProcess) \o SetToSeq(locals \ keys)

\* #processDependency's URL
DependencyUrl(specifier, baseUrl) ==
    IF isRelativeOrFileUrl(specifier) THEN ResolveUrl(specifier, baseUrl) ELSE specifier

\* The calls of #processDependency made in one go: each runs the synchronous
\* part of #transformModule and leaves a pending result behind.
FanOut(E0, specifiers, baseUrl, importMap) ==
    LET After[k \in 0..Len(specifiers)] ==
            IF k = 0 THEN [E |-> E0, waits |-> <<>>]
            ELSE LET u == DependencyUrl(specifiers[k], baseUrl)
                     r == transformModule(After[k - 1].E, u, importMap)
                 IN  [E |-> r.E,
                      waits |-> Append(After[k - 1].waits,
                                       [spec |-> specifiers[k], url |-> u,
                                        tid |-> r.tid, val |-> r.val])]
    IN  After[Len(specifiers)]

\* A barrier that does not wait.
WaitNever(tk, w) == TRUE

WaitSettled(tk, w) == IF w.tid = 0 THEN TRUE ELSE tk[w.tid].status # "pending"
WaitFulfilled(tk, w) == IF w.tid = 0 THEN TRUE ELSE tk[w.tid].status = "fulfilled"
WaitValue(tk, w) == IF w.tid = 0 THEN w.val ELSE tk[w.tid].value

\* A table that leaves the dependencies that failed out.
TransformedToCachedNoFallback(tk, waits, baseUrl) ==
    LET ok == SelectSeq(waits, LAMBDA w : WaitFulfilled(tk, w))
    IN  [i \in 1..Len(ok) |-> <<ok[i].spec, WaitValue(tk, ok[i])>>]

\* A table that leaves a failing dependency as it is written.
TransformedToCachedAsWritten(tk, waits, baseUrl) ==
    [i \in 1..Len(waits) |->
        <<waits[i].spec,
          IF WaitFulfilled(tk, waits[i]) THEN WaitValue(tk, waits[i])
          ELSE waits[i].spec>>]

\* transformedToCachedUrls once every dependency has settled: the cache URL
\* of a dependency that succeeded, the resolved URL of one that failed.
TransformedToCached(tk, waits, baseUrl) ==
    [i \in 1..Len(waits) |->
        <<waits[i].spec,
          IF WaitFulfilled(tk, waits[i]) THEN WaitValue(tk, waits[i])
          ELSE DependencyUrl(waits[i].spec, baseUrl)>>]

\* ------------------------------------------------------------------ the loader
\* The cache URLs that the text persisted at a cache URL imports.
CacheImports(d, loc) ==
    IF loc \in DOMAIN d
    THEN {d[loc].imports[i].s : i \in {j \in 1..Len(d[loc].imports) : IsCacheUrl(d[loc].imports[j].s)}}
    ELSE {}

\* The cache URLs a load of loc visits.
RECURSIVE Reach(_, _, _)
Reach(d, frontier, seen) ==
    IF frontier = {} THEN seen
    ELSE LET next == UNION {CacheImports(d, l) : l \in frontier}
         IN  Reach(d, next \ (seen \cup frontier), seen \cup frontier)

\* import(transformedUrl) finds every file it visits.
Loadable(d, loc) == \A l \in Reach(d, {loc}, {}) : l \in DOMAIN d

\* ------------------------------------------------------------------ transformation steps
Running(t) == t \in 1..Len(tasks) /\ tasks[t].status = "pending"

\* The source read ends: the text is transpiled, and either the module has
\* no import and goes to #cacheModule, or the first replaceImports starts.
ReadDone(t) ==
    /\ Running(t) /\ tasks[t].pc = "read"
    /\ tasks[t].url \in DOMAIN files
    /\ LET urlString == tasks[t].url
           transpiledCode == transpileTypeScript(files[urlString], tsTranspileMode)
       IN  IF ~hasImports(transpiledCode) /\ ~hasImportMetaUrl(transpiledCode)
           THEN LET processedCode == IF hasImportMetaUrl(transpiledCode)
                                     THEN replaceImportMeta(transpiledCode, urlString)
                                     ELSE transpiledCode
                    finalCode == IF processedCode # transpiledCode
                                 THEN WithBanner(processedCode, urlString)
                                 ELSE processedCode
                IN  tasks' = [tasks EXCEPT ![t].pc = "fastwrite", ![t].code = finalCode,
                                ![t].cacheUrl = getCacheUrl(urlString, finalCode, tasks[t].map)]
           ELSE tasks' = [tasks EXCEPT ![t].pc = "pass1", ![t].code = transpiledCode]
    /\ UNCHANGED <<cache, transformedModules, processingModules,
                   transformationPromises, calls, disk, files, faults>>

\* A transformation that registers nothing before it asks for its dependencies.
RegisterLate(E, urlString, cacheUrl) == E

\* "Register early to prevent circular transformation":
\* this.#transformedModules.set(urlString, cacheUrl)
RegisterEarly(E, urlString, cacheUrl) ==
    [E EXCEPT !.tm = (urlString :> cacheUrl) @@ @]

\* The first pass ends: the cache URL is registered, and every dependency is
\* asked for before the transformation waits for them all.
Pass1Done(t) ==
    /\ Running(t) /\ tasks[t].pc = "pass1"
    /\ \E urlString \in {tasks[t].url}, importMap \in {tasks[t].map} :
       \E o2t \in {OriginalToTransformed(urlString, importMap, tasks[t].code)},
          locals \in {AllLocalSpecifiers(tasks[t].code)} :
       \E replaced \in {replaceImports(tasks[t].code, o2t)} :
       \E transformedCode \in {replaceImportMeta(replaced, urlString)} :
       \E cacheUrl \in {getCacheUrl(urlString, transformedCode, importMap)},
          specifiers \in {ToProcess(o2t, locals)} :
       \E E1 \in {RegisterEarly(Cur, urlString, cacheUrl)} :
       \E R \in {FanOut(E1, specifiers, urlString, importMap)} :
           /\ Len(R.E.tasks) <= MaxTasks
           /\ Commit([R.E EXCEPT !.tasks[t].pc = "deps", !.tasks[t].code = transformedCode,
                                 !.tasks[t].cacheUrl = cacheUrl, !.tasks[t].o2t = o2t,
                                 !.tasks[t].waits = R.waits])
    /\ UNCHANGED <<cache, calls, disk, files, faults>>

\* Promise.all resolves: every dependency has settled.
DepsSettled(t) ==
    /\ Running(t) /\ tasks[t].pc = "deps"
    /\ \A i \in 1..Len(tasks[t].waits) : WaitSettled(tasks, tasks[t].waits[i])
    /\ LET t2c == TransformedToCached(tasks, tasks[t].waits, tasks[t].url)
       IN  IF Len(t2c) > 0
           THEN tasks' = [tasks EXCEPT ![t].pc = "pass2", ![t].t2c = t2c]
           ELSE tasks' = [tasks EXCEPT ![t].pc = "write", ![t].t2c = t2c,
                                       ![t].code = WithBanner(tasks[t].code, tasks[t].url)]
    /\ UNCHANGED <<cache, transformedModules, processingModules,
                   transformationPromises, calls, disk, files, faults>>

\* The second pass ends: the banner is added and the write is issued.
Pass2Done(t) ==
    /\ Running(t) /\ tasks[t].pc = "pass2"
    /\ tasks' = [tasks EXCEPT ![t].pc = "write",
                    ![t].code = WithBanner(replaceImports(tasks[t].code, tasks[t].t2c),
                                           tasks[t].url)]
    /\ UNCHANGED <<cache, transformedModules, processingModules,
                   transformationPromises, calls, disk, files, faults>>

\* A write that derives the location again from the text it is about to write.
WriteUrlFromFinalText(task) == getCacheUrl(task.url, task.code, task.map)

\* The location handed to #writeToCache: the cache URL registered earlier.
WriteUrl(task) == task.cacheUrl

\* #writeToCache ends: the transformation returns its cache URL.
WriteDone(t) ==
    /\ Running(t) /\ tasks[t].pc = "write"
    /\ disk' = (WriteUrl(tasks[t]) :> tasks[t].code) @@ disk
    /\ Commit(Finally(Settle(Cur, t, "fulfilled", tasks[t].cacheUrl), tasks[t].url))
    /\ UNCHANGED <<cache, calls, files, faults>>

\* #cacheModule's write ends: the cache URL is recorded and returned.
FastWriteDone(t) ==
    /\ Running(t) /\ tasks[t].pc = "fastwrite"
    /\ disk' = (tasks[t].cacheUrl :> tasks[t].code) @@ disk
    /\ Commit(Finally(Settle([Cur EXCEPT !.tm = (tasks[t].url :> tasks[t].cacheUrl) @@ @],
                             t, "fulfilled", tasks[t].cacheUrl),
                      tasks[t].url))
    /\ UNCHANGED <<cache, calls, files, faults>>

\* The source does not exist: the read throws.
ReadMissing(t) ==
    /\ Running(t) /\ tasks[t].pc = "read"
    /\ tasks[t].url \notin DOMAIN files
    /\ Commit(Finally(Settle(Cur, t, "rejected", <<>>), tasks[t].url))
    /\ UNCHANGED <<cache, calls, disk, files, faults>>

\* An awaited step throws: the read or the transpiler, either replaceImports,
\* or the write to the cache.
Fault(t) ==
    /\ Running(t) /\ tasks[t].pc \in {"read", "pass1", "pass2", "write", "fastwrite"}
    /\ faults < MaxFaults
    /\ faults' = faults + 1
    /\ Commit(Finally(Settle(Cur, t, "rejected", <<>>), tasks[t].url))
    /\ UNCHANGED <<cache, calls, disk, files>>

\* ------------------------------------------------------------------ import()
\* An import() that does not look into the memory cache.
ImportCallNoCache(specifier, importMap) ==
    /\ Len(calls) < MaxCalls
    /\ calls' = Append(calls,
            [specifier |-> specifier, map |-> importMap, pc |-> "start", hit |-> FALSE,
             tid |-> 0, val |-> <<>>, memo |-> FALSE])
    /\ UNCHANGED <<cache, transformedModules, processingModules,
                   transformationPromises, tasks, disk, files, faults>>

\* import(specifier, importMap) is called: a memory-cache hit returns at
\* once, anything else goes on to the transformation.
ImportCall(specifier, importMap) ==
    /\ Len(calls) < MaxCalls
    /\ calls' = Append(calls,
            IF specifier \in DOMAIN cache
            THEN [specifier |-> specifier, map |-> importMap, pc |-> "done", hit |-> TRUE,
                  tid |-> 0, val |-> cache[specifier], memo |-> FALSE]
            ELSE [specifier |-> specifier, map |-> importMap, pc |-> "start", hit |-> FALSE,
                  tid |-> 0, val |-> <<>>, memo |-> FALSE])
    /\ UNCHANGED <<cache, transformedModules, processingModules,
                   transformationPromises, tasks, disk, files, faults>>

\* Some transformation of urlString has returned its cache URL.
Completed(tk, urlString) ==
    \E t \in 1..Len(tk) : tk[t].url = urlString /\ tk[t].status = "fulfilled"

\* The call reaches "await this.#transformModule(url, effectiveImportMap)".
ImportTransform(c) ==
    /\ c \in 1..Len(calls) /\ calls[c].pc = "start"
    /\ \E r \in {transformModule(Cur, calls[c].specifier, calls[c].map)} :
           /\ Len(r.E.tasks) <= MaxTasks
           /\ Commit(r.E)
           /\ calls' = [calls EXCEPT ![c].pc = "await", ![c].tid = r.tid, ![c].val = r.val,
                                     ![c].memo = Completed(tasks, calls[c].specifier)]
    /\ UNCHANGED <<cache, disk, files, faults>>

\* The awaited transformation settles: the call loads the cache URL, or fails.
ImportResume(c) ==
    /\ c \in 1..Len(calls) /\ calls[c].pc = "await"
    /\ WaitSettled(tasks, calls[c])
    /\ calls' = IF WaitFulfilled(tasks, calls[c])
                THEN [calls EXCEPT ![c].pc = "load", ![c].val = WaitValue(tasks, calls[c])]
                ELSE [calls EXCEPT ![c].pc = "failed"]
    /\ UNCHANGED <<cache, transformedModules, processingModules,
                   transformationPromises, tasks, disk, files, faults>>

\* import(transformedUrl) ends: the module is kept in the memory cache, or
\* the load fails on a file that is not there.
ImportLoad(c) ==
    /\ c \in 1..Len(calls) /\ calls[c].pc = "load"
    /\ IF Loadable(disk, calls[c].val)
       THEN /\ cache' = (calls[c].specifier :> calls[c].val) @@ cache
            /\ calls' = [calls EXCEPT ![c].pc = "done"]
       ELSE /\ cache' = cache
            /\ calls' = [calls EXCEPT ![c].pc = "failed"]
    /\ UNCHANGED <<transformedModules, processingModules,
                   transformationPromises, tasks, disk, files, faults>>

\* ------------------------------------------------------------------ specification
NoLookup ==
    /\ rUrl = <<>> /\ rImports = <<>> /\ rScopes = <<>>
    /\ rSpec = <<>> /\ rOut = <<>> /\ rDone = FALSE

NoDiscover ==
    /\ dInst = <<>> /\ dCall = <<>> /\ dConfig = <<>> /\ dAuto = TRUE
    /\ dUrl = <<>> /\ dLooked = FALSE /\ dOut = <<>> /\ dDone = FALSE

NoTranspile ==
    /\ xOptMode = <<>> /\ xEnv = <<>> /\ xCode = NoText
    /\ xMode = "" /\ xOut = NoText /\ xDone = FALSE

\* replace_imports.ts as loaded: not initialized, no replaceImports call.
NoApply ==
    /\ aSource = <<>> /\ aReplacements = <<>> /\ aOut = <<>> /\ aDone = FALSE

NoGraphInit ==
    /\ denoGraphInitialized = FALSE /\ initializationPromise = "null"
    /\ initCalls = 0 /\ callers = <<>>

Init ==
    /\ cache = <<>>
    /\ transformedModules = <<>>
    /\ processingModules = {}
    /\ transformationPromises = <<>>
    /\ tasks = <<>>
    /\ calls = <<>>
    /\ disk = <<>>
    /\ files \in Graphs
    /\ faults = 0
    /\ NoLookup
    /\ NoDiscover
    /\ NoTranspile
    /\ NoGraphInit
    /\ NoApply

Next ==
    \/ \E s \in TopLevel, m \in Maps : ImportCall(s, m) /\ UNCHANGED otherVars
    \/ \E c \in 1..MaxCalls : ImportTransform(c) /\ UNCHANGED otherVars
    \/ \E c \in 1..MaxCalls : ImportResume(c) /\ UNCHANGED otherVars
    \/ \E c \in 1..MaxCalls : ImportLoad(c) /\ UNCHANGED otherVars
    \/ \E t \in 1..MaxTasks : ReadDone(t) /\ UNCHANGED otherVars
    \/ \E t \in 1..MaxTasks : ReadMissing(t) /\ UNCHANGED otherVars
    \/ \E t \in 1..MaxTasks : Pass1Done(t) /\ UNCHANGED otherVars
    \/ \E t \in 1..MaxTasks : DepsSettled(t) /\ UNCHANGED otherVars
    \/ \E t \in 1..MaxTasks : Pass2Done(t) /\ UNCHANGED otherVars
    \/ \E t \in 1..MaxTasks : WriteDone(t) /\ UNCHANGED otherVars
    \/ \E t \in 1..MaxTasks : FastWriteDone(t) /\ UNCHANGED otherVars
    \/ \E t \in 1..MaxTasks : Fault(t) /\ UNCHANGED otherVars

Spec == Init /\ [][Next]_vars

\* The same instance over the graphs with independent dependencies.
InitFan ==
    /\ cache = <<>>
    /\ transformedModules = <<>>
    /\ processingModules = {}
    /\ transformationPromises = <<>>
    /\ tasks = <<>>
    /\ calls = <<>>
    /\ disk = <<>>
    /\ files \in FanGraphs
    /\ faults = 0
    /\ NoLookup
    /\ NoDiscover
    /\ NoTranspile
    /\ NoGraphInit
    /\ NoApply

SpecFan == InitFan /\ [][Next]_vars

\* A step of some transformation or of some call past its first await: the
\* event loop runs every continuation whose awaited operation has ended.
Progress ==
    \/ \E c \in 1..MaxCalls : ImportTransform(c) \/ ImportResume(c) \/ ImportLoad(c)
    \/ \E t \in 1..MaxTasks :
        \/ ReadDone(t) \/ ReadMissing(t) \/ Pass1Done(t) \/ DepsSettled(t)
        \/ Pass2Done(t) \/ WriteDone(t) \/ FastWriteDone(t)

FairSpec == Init /\ [][Next]_vars /\ WF_vars(Progress /\ UNCHANGED otherVars)

\* ------------------------------------------------------------------ the lookup alone
\* The inputs of one lookup: short tables over a few keys and targets, a
\* requesting module inside or outside the scope "file:///i/", and a
\* specifier that equals a key, extends one past a slash, extends one
\* without a slash, extends two keys of different length, or matches none.
KeyX == <<"@", "x">>
KeyXSlash == <<"@", "x", "/">>
KeyY == <<"@", "y">>
KeyXSub == <<"@", "x", "/", "s">>
LookupEntries ==
    {<<KeyX, <<"A">>>>, <<KeyXSlash, <<"A", "/">>>>, <<KeyX, <<"B">>>>, <<KeyY, <<"B">>>>,
     <<KeyXSub, <<"D">>>>}
ScopeIn == FilePfx \o <<"/", "i", "/">>
ScopeRoot == FilePfx \o <<"/">>
LookupScopes ==
    {<<p, e>> : p \in {ScopeIn, ScopeRoot},
                e \in {<<>>, << <<KeyX, <<"B">>>> >>, << <<KeyX, <<"C">>>> >>,
                        << <<KeyY, <<"A">>>> >>}}
LookupUrls == {ScopeIn \o <<"m">>, FilePfx \o <<"/", "o", "/", "m">>}
LookupSpecifiers ==
    {KeyX, KeyX \o <<"/", "s">>, KeyX \o <<"s">>, KeyY, <<"@", "z">>,
     KeyXSub \o <<"/", "y">>}

EngineIdle ==
    /\ cache = <<>> /\ transformedModules = <<>> /\ processingModules = {}
    /\ transformationPromises = <<>> /\ tasks = <<>> /\ calls = <<>>
    /\ disk = <<>> /\ files = GraphFan /\ faults = 0

\* Object.entries of an object and the entries of a Map: no key twice.
DistinctKeys(pairs) ==
    \A i, j \in 1..Len(pairs) : pairs[i][1] = pairs[j][1] => i = j

InitLookup ==
    /\ EngineIdle
    /\ rUrl \in LookupUrls
    /\ rImports \in {d \in SeqsUpTo(LookupEntries, MaxDirect) : DistinctKeys(d)}
    /\ rScopes \in {sc \in SeqsUpTo(LookupScopes, MaxScopes) : DistinctKeys(sc)}
    /\ rSpec \in LookupSpecifiers
    /\ rOut = <<>>
    /\ rDone = FALSE
    /\ NoDiscover
    /\ NoTranspile
    /\ NoGraphInit
    /\ NoApply

\* applyImportMapToSpecifier(rSpec) for the module rUrl.
Lookup ==
    /\ ~rDone
    /\ rOut' = createOptimizedReplacer(rUrl, rImports, rScopes, rSpec)
    /\ rDone' = TRUE
    /\ UNCHANGED <<rUrl, rImports, rScopes, rSpec>>
    /\ UNCHANGED engineVars
    /\ UNCHANGED discoverVars
    /\ UNCHANGED transpileVars
    /\ UNCHANGED initVars
    /\ UNCHANGED applyVars

NextLookup == Lookup

SpecLookup == InitLookup /\ [][NextLookup]_vars

\* ------------------------------------------------------------------ the effective import map alone
\* An optional import map is <<>> (undefined) or <<map>>.
\* "x?.imports" and "x?.scopes" spread into an object literal.
OptImports(o) == IF o = <<>> THEN <<>> ELSE o[1].imports
OptScopes(o) == IF o = <<>> THEN <<>> ELSE o[1].scopes

HasKey(pairs, key) == \E i \in 1..Len(pairs) : pairs[i][1] = key

\* A merge in which the entries of the first object win.
SpreadKeepsFirst(a, b) ==
    a \o SelectSeq(b, LAMBDA e : ~HasKey(a, e[1]))

\* { ...a, ...b }: the keys of a in their order, each with b's value when b
\* has the key, then the keys that only b has.
Spread(a, b) ==
    [i \in 1..Len(a) |-> IF HasKey(b, a[i][1]) THEN <<a[i][1], MapGet(b, a[i][1], a[i][2])>>
                         ELSE a[i]]
    \o SelectSeq(b, LAMBDA e : ~HasKey(a, e[1]))

\* A test that looks for a deno.json whatever the module's protocol.
ShouldDiscoverAnyProtocol(auto, callMap, url) == auto /\ callMap = <<>>

\* this.#autoDiscoverImportMap && !importMap && url.protocol === "file:"
ShouldDiscover(auto, callMap, url) ==
    auto /\ callMap = <<>> /\ StartsWith(url, <<"f", "i", "l", "e", ":">>)

\* An import() that uses the deno.json map it finds in place of the
\* instance's map.
EffectiveImportMapConfigOnly(inst, callMap, config, auto, url) ==
    LET effectiveImportMap == IF callMap # <<>> THEN callMap ELSE inst
    IN  IF ShouldDiscover(auto, callMap, url) /\ config # <<>>
        THEN config
        ELSE effectiveImportMap

\* effectiveImportMap of import(specifier, importMap): config is the import
\* map of the deno.json found for the module, <<>> when none is found.
EffectiveImportMap(inst, callMap, config, auto, url) ==
    LET effectiveImportMap == IF callMap # <<>> THEN callMap ELSE inst
    IN  IF ShouldDiscover(auto, callMap, url) /\ config # <<>>
        THEN << ImportMap(Spread(OptImports(effectiveImportMap), config[1].imports),
                          Spread(OptScopes(effectiveImportMap), config[1].scopes)) >>
        ELSE effectiveImportMap

\* The tables and maps drawn for the instance, the call and the deno.json.
DiscoverTables ==
    {<<>>, << <<KeyX, <<"A">>>> >>, << <<KeyX, <<"B">>>>, <<KeyY, <<"B">>>> >>,
     << <<KeyY, <<"A">>>> >>}
DiscoverScopes ==
    {<<>>, << <<ScopeIn, << <<KeyX, <<"B">>>> >> >> >>,
     << <<ScopeIn, << <<KeyY, <<"A">>>> >> >>, <<ScopeRoot, <<>>>> >>}
DiscoverMaps == {ImportMap(i, sc) : i \in DiscoverTables, sc \in DiscoverScopes}
OptionalMaps == {<<>>} \cup {<<m>> : m \in DiscoverMaps}
DiscoverUrls == {File("a"), HttpsPfx \o <<"h", "/", "a">>}

InitDiscover ==
    /\ EngineIdle
    /\ NoLookup
    /\ dInst \in OptionalMaps
    /\ dCall \in OptionalMaps
    /\ dConfig \in OptionalMaps
    /\ dAuto \in BOOLEAN
    /\ dUrl \in DiscoverUrls
    /\ dLooked = FALSE
    /\ dOut = <<>>
    /\ dDone = FALSE
    /\ NoTranspile
    /\ NoGraphInit
    /\ NoApply

\* import() from its memory-cache miss to its call of #transformModule.
Discover ==
    /\ ~dDone
    /\ dLooked' = ShouldDiscover(dAuto, dCall, dUrl)
    /\ dOut' = EffectiveImportMap(dInst, dCall, dConfig, dAuto, dUrl)
    /\ dDone' = TRUE
    /\ UNCHANGED <<dInst, dCall, dConfig, dAuto, dUrl>>
    /\ UNCHANGED engineVars
    /\ UNCHANGED lookupVars
    /\ UNCHANGED transpileVars
    /\ UNCHANGED initVars
    /\ UNCHANGED applyVars

NextDiscover == Discover

SpecDiscover == InitDiscover /\ [][NextDiscover]_vars

\* ------------------------------------------------------------------ transpileTypeScript
\* The modes of the options type, and the values the environment variable
\* can hold: any string.
OptionModes == {"transpile", "strip", "passthrough"}
EnvValues == OptionModes \cup {"", "other"}
TranspileTexts ==
    {Text(b, ty, i, m) : b \in {"a"}, ty \in BOOLEAN,
                         i \in {<<>>, <<Imp(Rel("b"))>>}, m \in {"none", "ref"}}

InitTranspile ==
    /\ EngineIdle
    /\ NoLookup
    /\ NoDiscover
    /\ xOptMode \in {<<>>} \cup {<<m>> : m \in OptionModes}
    /\ xEnv \in {<<>>} \cup {<<v>> : v \in EnvValues}
    /\ xCode \in TranspileTexts
    /\ xMode = ""
    /\ xOut = NoText
    /\ xDone = FALSE
    /\ NoGraphInit
    /\ NoApply

\* transpileTypeScript(xCode, { mode: xOptMode }) with the environment
\* variable at xEnv.
Transpile ==
    /\ ~xDone
    /\ xMode' = TranspileMode(xOptMode, xEnv)
    /\ xOut' = transpileTypeScript(xCode, TranspileMode(xOptMode, xEnv))
    /\ xDone' = TRUE
    /\ UNCHANGED <<xOptMode, xEnv, xCode>>
    /\ UNCHANGED engineVars
    /\ UNCHANGED lookupVars
    /\ UNCHANGED discoverVars
    /\ UNCHANGED initVars
    /\ UNCHANGED applyVars

NextTranspile == Transpile

SpecTranspile == InitTranspile /\ [][NextTranspile]_vars


\* ------------------------------------------------------------------ ensureDenoGraphInitialized
\* Calls of replaceImports made in the process.
MaxCallers == 4

\* A caller of replaceImports: where it stands, and whether the parsing
\* engine was initialized when it built its module graph.
Caller(pc) == [pc |-> pc, initialized |-> FALSE]

InitGraph ==
    /\ EngineIdle
    /\ NoLookup
    /\ NoDiscover
    /\ NoTranspile
    /\ NoApply
    /\ denoGraphInitialized = FALSE
    /\ initializationPromise = "null"
    /\ initCalls = 0
    /\ callers = <<>>

\* An ensureDenoGraphInitialized that calls init() whenever the flag is
\* not set yet.
EnsureNoSharedPromise ==
    /\ Len(callers) < MaxCallers
    /\ IF denoGraphInitialized
       THEN /\ callers' = Append(callers, Caller("ready"))
            /\ UNCHANGED <<initializationPromise, initCalls>>
       ELSE /\ initializationPromise' = "pending"
            /\ initCalls' = initCalls + 1
            /\ callers' = Append(callers, Caller("await"))
    /\ UNCHANGED denoGraphInitialized
    /\ UNCHANGED <<engineVars, lookupVars, discoverVars, transpileVars, applyVars>>

\* replaceImports is called and runs ensureDenoGraphInitialized up to its
\* await: it returns when the flag is set, calls init() and stores the
\* promise when there is none, and awaits the stored promise.
Ensure ==
    /\ Len(callers) < MaxCallers
    /\ IF denoGraphInitialized
       THEN /\ callers' = Append(callers, Caller("ready"))
            /\ UNCHANGED <<initializationPromise, initCalls>>
       ELSE IF initializationPromise = "null"
       THEN /\ initializationPromise' = "pending"
            /\ initCalls' = initCalls + 1
            /\ callers' = Append(callers, Caller("await"))
       ELSE /\ callers' = Append(callers, Caller("await"))
            /\ UNCHANGED <<initializationPromise, initCalls>>
    /\ UNCHANGED denoGraphInitialized
    /\ UNCHANGED <<engineVars, lookupVars, discoverVars, transpileVars, applyVars>>

\* init() resolves: the then callback sets the flag.
InitResolves ==
    /\ initializationPromise = "pending"
    /\ initializationPromise' = "fulfilled"
    /\ denoGraphInitialized' = TRUE
    /\ UNCHANGED <<initCalls, callers>>
    /\ UNCHANGED <<engineVars, lookupVars, discoverVars, transpileVars, applyVars>>

\* init() rejects: the stored promise stays rejected.
InitRejects ==
    /\ initializationPromise = "pending"
    /\ initializationPromise' = "rejected"
    /\ UNCHANGED <<denoGraphInitialized, initCalls, callers>>
    /\ UNCHANGED <<engineVars, lookupVars, discoverVars, transpileVars, applyVars>>

\* "await initializationPromise" ends for caller k.
EnsureResume(k) ==
    /\ k \in 1..Len(callers) /\ callers[k].pc = "await"
    /\ initializationPromise \in {"fulfilled", "rejected"}
    /\ callers' = [callers EXCEPT ![k].pc =
                      IF initializationPromise = "fulfilled" THEN "ready" ELSE "failed"]
    /\ UNCHANGED <<denoGraphInitialized, initializationPromise, initCalls>>
    /\ UNCHANGED <<engineVars, lookupVars, discoverVars, transpileVars, applyVars>>

\* Caller k calls createGraph.
CreateGraph(k) ==
    /\ k \in 1..Len(callers) /\ callers[k].pc = "ready"
    /\ callers' = [callers EXCEPT ![k].pc = "graph",
                                  ![k].initialized = denoGraphInitialized]
    /\ UNCHANGED <<denoGraphInitialized, initializationPromise, initCalls>>
    /\ UNCHANGED <<engineVars, lookupVars, discoverVars, transpileVars, applyVars>>

NextGraph ==
    \/ Ensure
    \/ InitResolves
    \/ InitRejects
    \/ \E k \in 1..MaxCallers : EnsureResume(k)
    \/ \E k \in 1..MaxCallers : CreateGraph(k)

SpecGraph == InitGraph /\ [][NextGraph]_vars

\* ------------------------------------------------------------------ applyReplacements
\* Replacements handed to one call.
MaxSpans == 3

\* sourceCode.split("\n")
RECURSIVE Split(_)
Split(text) ==
    LET breaks == {i \in 1..Len(text) : text[i] = "\n"}
    IN  IF breaks = {} THEN <<text>>
        ELSE <<SubSeq(text, 1, Min(breaks) - 1)>>
                 \o Split(SubSeq(text, Min(breaks) + 1, Len(text)))

\* lines.join("\n")
RECURSIVE Join(_)
Join(lines) ==
    IF Len(lines) = 0 THEN <<>>
    ELSE IF Len(lines) = 1 THEN lines[1]
    ELSE lines[1] \o <<"\n">> \o Join(Tail(lines))

\* line.substring(from, to) with both ends inside 0..line.length
Substring(line, from, to) ==
    LET lo == IF from > Len(line) THEN Len(line) ELSE from
        hi == IF to > Len(line) THEN Len(line) ELSE to
    IN  IF lo <= hi THEN SubSeq(line, lo + 1, hi) ELSE SubSeq(line, hi + 1, lo)

\* createReplacement: a span and the specifier to put there.
Replacement(line, startChar, endChar, newSpecifier) ==
    [startLine |-> line, startChar |-> startChar, endLine |-> line,
     endChar |-> endChar, newSpecifier |-> newSpecifier]

\* The comparator of the sort is negative: a goes before b.
Before(a, b) ==
    IF a.startLine # b.startLine THEN b.startLine - a.startLine < 0
    ELSE b.startChar - a.startChar < 0

\* A sort that leaves the list in the order it came in.
SortedAsGiven(replacements) == replacements

\* replacements.sort(...): last line first, and on one line last span first.
RECURSIVE Sorted(_)
Sorted(replacements) ==
    IF replacements = <<>> THEN <<>>
    ELSE LET head == replacements[1]
             rest == Sorted(Tail(replacements))
             ahead == {i \in 1..Len(rest) : Before(rest[i], head)}
             n == IF ahead = {} THEN 0 ELSE Max(ahead)
         IN  SubSeq(rest, 1, n) \o <<head>> \o SubSeq(rest, n + 1, Len(rest))

\* One turn of the loop: the span of the line is cut out and the quoted
\* new specifier put in its place.
ApplyOne(lines, replacement) ==
    LET line == lines[replacement.startLine + 1]
    IN  [lines EXCEPT ![replacement.startLine + 1] =
            Substring(line, 0, replacement.startChar)
                \o <<"\"">> \o replacement.newSpecifier \o <<"\"">>
                \o Substring(line, replacement.endChar, Len(line))]

RECURSIVE ApplyAll(_, _)
ApplyAll(lines, replacements) ==
    IF replacements = <<>> THEN lines
    ELSE ApplyAll(ApplyOne(lines, replacements[1]), Tail(replacements))

applyReplacements(sourceCode, replacements) ==
    Join(ApplyAll(Split(sourceCode), Sorted(replacements)))

\* The texts of a call: two lines, and one line.
ApplyTexts ==
    {<<"a", "b", "c", "d", "\n", "e", "f", "g">>, <<"a", "b", "c", "d", "e">>}
NewSpecifiers == {<<"N">>, <<"L", "O", "N", "G">>}

\* The spans of a text, each on one line and not empty, with a new specifier.
SpansOf(text) ==
    UNION {{Replacement(l - 1, s, e, n) :
                s \in 0..(Len(Split(text)[l]) - 1), e \in 1..Len(Split(text)[l]),
                n \in NewSpecifiers} : l \in 1..Len(Split(text))}

WellFormed(replacements) ==
    \A i \in 1..Len(replacements) : replacements[i].startChar < replacements[i].endChar

NonOverlapping(replacements) ==
    \A i, j \in 1..Len(replacements) :
        i # j => \/ replacements[i].startLine # replacements[j].startLine
                 \/ replacements[i].endChar <= replacements[j].startChar
                 \/ replacements[j].endChar <= replacements[i].startChar

InitApply ==
    /\ EngineIdle
    /\ NoLookup
    /\ NoDiscover
    /\ NoTranspile
    /\ NoGraphInit
    /\ aSource \in ApplyTexts
    /\ aReplacements \in {r \in SeqsUpTo(SpansOf(aSource), MaxSpans) :
                                WellFormed(r) /\ NonOverlapping(r)}
    /\ aOut = <<>>
    /\ aDone = FALSE

\* applyReplacements(aSource, aReplacements)
Apply ==
    /\ ~aDone
    /\ aOut' = applyReplacements(aSource, aReplacements)
    /\ aDone' = TRUE
    /\ UNCHANGED <<aSource, aReplacements>>
    /\ UNCHANGED <<engineVars, lookupVars, discoverVars, transpileVars, initVars>>

NextApply == Apply

SpecApply == InitApply /\ [][NextApply]_vars

\* ------------------------------------------------------------------ claims
ReadsOf(tk, urlString) == Cardinality({t \in 1..Len(tk) : tk[t].url = urlString})
ImportsOf(text) == {text.imports[i].s : i \in 1..Len(text.imports)}
WaitsOn(task, urlString) == {i \in 1..Len(task.waits) : task.waits[i].url = urlString}

\* C1: once a transformation of a module has completed successfully, every
\* later #transformModule call for it (from import() or from a dependent
\* module) returns the same cache location at once, and no step reads the
\* module's source again.
C1_Memoized ==
    [][\A t0 \in 1..Len(tasks) :
        tasks[t0].status = "fulfilled" =>
            LET u == tasks[t0].url
                loc == tasks[t0].value
            IN  /\ ReadsOf(tasks', u) = ReadsOf(tasks, u)
                /\ \A c \in 1..Len(calls') :
                    (c <= Len(calls) /\ calls[c].pc = "start" /\ calls'[c].pc = "await"
                     /\ calls'[c].specifier = u)
                        => calls'[c].tid = 0 /\ calls'[c].val = loc
                /\ \A t \in 1..Len(tasks) :
                    (tasks[t].pc = "pass1" /\ tasks'[t].pc = "deps")
                        => \A i \in WaitsOn(tasks'[t], u) :
                            tasks'[t].waits[i].tid = 0 /\ tasks'[t].waits[i].val = loc]_vars

\* C1 witness: a top-level call asked for a module whose transformation had
\* already completed, and got its cache location without a new transformation.
C1_Witness ==
    \E c \in 1..Len(calls) :
        /\ calls[c].memo /\ calls[c].pc = "load" /\ calls[c].tid = 0
        /\ ReadsOf(tasks, calls[c].specifier) = 1

\* C2: every transformation that was started eventually returns or fails,
\* also in graphs with import cycles.
C2_Terminates ==
    \A t \in 1..MaxTasks :
        (t \in 1..Len(tasks) /\ tasks[t].status = "pending")
            ~> (t \in 1..Len(tasks) /\ tasks[t].status # "pending")

\* C2 witness: two modules that import each other have both been
\* transformed, each having asked for the other.
C2_Witness ==
    \E a, b \in 1..Len(tasks) :
        /\ a # b
        /\ tasks[a].status = "fulfilled" /\ tasks[b].status = "fulfilled"
        /\ WaitsOn(tasks[a], tasks[b].url) # {}
        /\ WaitsOn(tasks[b], tasks[a].url) # {}

\* C3: whenever a top-level transform call returns a cache location, the
\* file at that location and at every cache location reachable from it
\* through rewritten imports has been written.
C3_ReturnedIsLoadable ==
    \A c \in 1..Len(calls) :
        calls[c].pc = "load" => Loadable(disk, calls[c].val)

\* C4: when the latest transformation of a module has failed, no
\* transformation record for that module remains.
C4_NoRecordAfterFailure ==
    \A t \in 1..Len(tasks) :
        (/\ tasks[t].status = "rejected"
         /\ \A t2 \in 1..Len(tasks) : tasks[t2].url = tasks[t].url => t2 <= t)
            => tasks[t].url \notin DOMAIN transformedModules

\* C5: when two modules that import each other have both been transformed,
\* each having received the other's result, the persisted text of each
\* imports the other's cache location and no longer its original URL, and
\* the location each was given for the other is where the other is persisted.
C5_CycleLocations ==
    \A a, b \in 1..Len(tasks) :
        (/\ a # b
         /\ tasks[a].status = "fulfilled" /\ tasks[b].status = "fulfilled"
         /\ WaitsOn(tasks[a], tasks[b].url) # {}
         /\ WaitsOn(tasks[b], tasks[a].url) # {}
         /\ \A i \in WaitsOn(tasks[a], tasks[b].url) : WaitFulfilled(tasks, tasks[a].waits[i])
         /\ \A i \in WaitsOn(tasks[b], tasks[a].url) : WaitFulfilled(tasks, tasks[b].waits[i]))
            => LET locA == tasks[a].value
                   locB == tasks[b].value
               IN  /\ locA \in DOMAIN disk /\ locB \in DOMAIN disk
                   /\ disk[locA].banner = tasks[a].url
                   /\ disk[locB].banner = tasks[b].url
                   /\ locA \in ImportsOf(disk[locB])
                   /\ locB \in ImportsOf(disk[locA])
                   /\ tasks[a].url \notin ImportsOf(disk[locB])
                   /\ tasks[b].url \notin ImportsOf(disk[locA])
                   /\ \A i \in WaitsOn(tasks[b], tasks[a].url) :
                        WaitValue(tasks, tasks[b].waits[i]) = locA
                   /\ \A i \in WaitsOn(tasks[a], tasks[b].url) :
                        WaitValue(tasks, tasks[a].waits[i]) = locB

\* C5 witness: a cycle a -> b -> a was transformed from a, and b was given
\* a's location while a was still in flight.
C5_Witness ==
    \E a, b \in 1..Len(tasks) :
        /\ a < b
        /\ tasks[a].status = "fulfilled" /\ tasks[b].status = "fulfilled"
        /\ \E i \in WaitsOn(tasks[a], tasks[b].url) : tasks[a].waits[i].tid = b
        /\ \E i \in WaitsOn(tasks[b], tasks[a].url) :
            tasks[b].waits[i].tid = 0 /\ tasks[b].waits[i].val = tasks[a].value
        /\ tasks[a].value \in ImportsOf(disk[tasks[b].value])

\* ------------------------------------------------------------------ claims about the lookup
\* The matching rule and its result, written out on the strings themselves.
RuleMatch(key, s) ==
    s = key \/ (Len(s) > Len(key) /\ SubSeq(s, 1, Len(key) + 1) = key \o <<"/">>)
RuleApply(entry, s) == entry[2] \o SubSeq(s, Len(entry[1]) + 1, Len(s))
Under(url, prefix) == Len(prefix) <= Len(url) /\ SubSeq(url, 1, Len(prefix)) = prefix
ActiveScopes == {i \in 1..Len(rScopes) : Under(rUrl, rScopes[i][1])}
DirectRuleMatches == {i \in 1..Len(rImports) : RuleMatch(rImports[i][1], rSpec)}
ScopeRuleMatches(i) == {j \in 1..Len(rScopes[i][2]) : RuleMatch(rScopes[i][2][j][1], rSpec)}

\* C6: when the direct table and a scope active for the requesting module
\* both have the specifier as a key, the lookup returns a scoped target.
C6_ScopedWins ==
    LET scoped == UNION {{rScopes[i][2][j][2] :
                            j \in {k \in 1..Len(rScopes[i][2]) : rScopes[i][2][k][1] = rSpec}} :
                         i \in ActiveScopes}
    IN  (/\ rDone
         /\ \E i \in 1..Len(rImports) : rImports[i][1] = rSpec
         /\ scoped # {})
            => rOut \in scoped

\* C7: a key ending with a slash is a prefix mapping: with such an entry
\* alone in the table, a specifier that starts with the key resolves to the
\* target followed by the rest of the specifier.
C7_TrailingSlashKey ==
    (/\ rDone
     /\ Len(rImports) = 1 /\ rScopes = <<>>
     /\ rImports[1][1][Len(rImports[1][1])] = "/"
     /\ Under(rSpec, rImports[1][1]))
        => rOut = RuleApply(rImports[1], rSpec)

C9_PassThrough ==
    (/\ rDone
     /\ DirectRuleMatches = {}
     /\ \A i \in ActiveScopes : ScopeRuleMatches(i) = {})
        => rOut = rSpec

\* C9 witness: a specifier that extends a key without a slash was looked up
\* in non-empty tables, one of them an active scope, and came back unchanged.
C9_Witness ==
    /\ rDone
    /\ rSpec = KeyX \o <<"s">>
    /\ \E i \in 1..Len(rImports) : rImports[i][1] = KeyX
    /\ \E i \in ActiveScopes : rScopes[i][2] # <<>>
    /\ rOut = rSpec

\* C10: a scope whose prefix the requesting module's location does not start
\* with never affects the result, and a scope whose prefix it starts with is
\* applied: when it is the only active scope with a matching entry, the
\* result is its first matching entry applied.
C10_ScopeGating ==
    rDone =>
        \A i \in 1..Len(rScopes) :
            /\ i \notin ActiveScopes
                => rOut = createOptimizedReplacer(rUrl, rImports,
                              [rScopes EXCEPT ![i] = <<rScopes[i][1], <<>>>>], rSpec)
            /\ (/\ i \in ActiveScopes
                /\ ScopeRuleMatches(i) # {}
                /\ \A k \in ActiveScopes \ {i} : ScopeRuleMatches(k) = {})
                => rOut = RuleApply(rScopes[i][2][Min(ScopeRuleMatches(i))], rSpec)

\* ------------------------------------------------------------------ claims about cache locations
\* C11: two top-level requests for the same module under two different
\* import maps get two different cache locations, also when one request
\* follows the other on the same instance.
C11_DistinctPerTable ==
    \A c1, c2 \in 1..Len(calls) :
        (/\ calls[c1].specifier = calls[c2].specifier
         /\ calls[c1].map # calls[c2].map
         /\ calls[c1].pc \in {"load", "done"}
         /\ calls[c2].pc \in {"load", "done"})
            => calls[c1].val # calls[c2].val

FirstPassSpecifier(t, k) ==
    MapGet(tasks[t].o2t, files[tasks[t].url].imports[k].s, files[tasks[t].url].imports[k].s)
\* The transformation has gone past Promise.all.
PastBarrier(t) == tasks[t].pc \in {"pass2", "write"} \/ tasks[t].status = "fulfilled"
\* The text that is, or is about to be, persisted is final.
TextFinal(t) == tasks[t].pc = "write" \/ tasks[t].status = "fulfilled"

\* C13: a module with several independent local dependencies goes on to its
\* second pass and its write only when every dependency has settled, in
\* whatever order they did, and the text it persists has every specifier of
\* a dependency that was transformed rewritten to that dependency's cache
\* location, not left as written or as resolved.
C13_FanInBarrier ==
    \A t \in 1..Len(tasks) :
        /\ PastBarrier(t)
            => \A i \in 1..Len(tasks[t].waits) :
                IF tasks[t].waits[i].tid = 0 THEN TRUE
                ELSE tasks[tasks[t].waits[i].tid].status # "pending"
        /\ (TextFinal(t) /\ tasks[t].waits # <<>>)
            => /\ tasks[t].status = "fulfilled" => tasks[t].value \in DOMAIN disk
               /\ \A i \in 1..Len(tasks[t].waits) : \A k \in 1..Len(tasks[t].code.imports) :
                    LET w == tasks[t].waits[i]
                        loc == IF w.tid = 0 THEN w.val ELSE tasks[w.tid].value
                        ok == IF w.tid = 0 THEN TRUE ELSE tasks[w.tid].status = "fulfilled"
                    IN  (ok /\ isRelativeOrFileUrl(w.spec) /\ FirstPassSpecifier(t, k) = w.spec)
                            => /\ tasks[t].code.imports[k].s = loc
                               /\ IsCacheUrl(loc)
                               /\ loc # w.spec
                               /\ loc # ResolveUrl(w.spec, tasks[t].url)

\* C13 witness: a module with two dependencies, each transformed by its own
\* transformation, has been persisted with both specifiers rewritten.
C13_Witness ==
    \E t \in 1..Len(tasks) :
        /\ tasks[t].status = "fulfilled" /\ Len(tasks[t].waits) = 2
        /\ tasks[t].value \in DOMAIN disk
        /\ \A i \in 1..2 :
            /\ tasks[t].waits[i].tid # 0
            /\ tasks[tasks[t].waits[i].tid].status = "fulfilled"
            /\ disk[tasks[t].value].imports[i].s = tasks[tasks[t].waits[i].tid].value
        /\ tasks[t].waits[1].tid # tasks[t].waits[2].tid

\* C14: a dependency that fails to transform does not fail the module that
\* imports it: the module stays in progress when the dependency fails, and
\* in its final text every dependency that succeeded is rewritten to its
\* cache location and every failing edge is left as its resolved specifier.
C14_FailedEdgeFallsBack ==
    /\ [](\A t \in 1..Len(tasks) :
            (TextFinal(t) /\ tasks[t].waits # <<>>) =>
                \A i \in 1..Len(tasks[t].waits) : \A k \in 1..Len(tasks[t].code.imports) :
                    LET w == tasks[t].waits[i]
                    IN  (w.tid # 0 /\ FirstPassSpecifier(t, k) = w.spec) =>
                            tasks[t].code.imports[k].s =
                                IF tasks[w.tid].status = "fulfilled"
                                THEN tasks[w.tid].value
                                ELSE ResolveUrl(w.spec, tasks[t].url))
    /\ [][\A t \in 1..Len(tasks) :
            (/\ tasks[t].pc = "deps"
             /\ \E i \in 1..Len(tasks[t].waits) :
                    /\ tasks[t].waits[i].tid # 0
                    /\ tasks[tasks[t].waits[i].tid].status = "pending"
                    /\ tasks'[tasks[t].waits[i].tid].status = "rejected")
                => tasks'[t].status = "pending" /\ tasks'[t].pc = "deps"]_vars

\* C14 witness: a module with one dependency that was transformed and one
\* that failed has been persisted, the first rewritten to its cache location
\* and the second to its resolved URL.
C14_Witness ==
    \E t \in 1..Len(tasks) :
        /\ tasks[t].status = "fulfilled" /\ Len(tasks[t].waits) = 2
        /\ tasks[t].value \in DOMAIN disk
        /\ tasks[t].waits[1].tid # 0 /\ tasks[t].waits[2].tid # 0
        /\ tasks[tasks[t].waits[1].tid].status = "fulfilled"
        /\ tasks[tasks[t].waits[2].tid].status = "rejected"
        /\ disk[tasks[t].value].imports[1].s = tasks[tasks[t].waits[1].tid].value
        /\ disk[tasks[t].value].imports[2].s = ResolveUrl(tasks[t].waits[2].spec, tasks[t].url)

\* ------------------------------------------------------------------ claims about import()
\* The transformation failed while reading its source.
ReadFailed(t) == tasks[t].status = "rejected" /\ tasks[t].code = NoText
\* Every transformation of the module failed while reading its source.
Unreadable(u) == \A t \in 1..Len(tasks) : tasks[t].url = u => ReadFailed(t)

\* C15: when the source of the top-level module cannot be read, the call
\* fails and never loads anything, and the instance is left with no
\* transformation record, no in-flight marker, no promise and no
\* memory-cache entry for the module, and with no file written for it.
C15_ReadFailureLeavesNothing ==
    \A c \in 1..Len(calls) :
        LET u == calls[c].specifier
        IN  (/\ calls[c].tid # 0
             /\ tasks[calls[c].tid].url = u
             /\ ReadFailed(calls[c].tid))
                => /\ calls[c].pc \in {"await", "failed"}
                   /\ Unreadable(u) =>
                        /\ u \notin DOMAIN transformedModules
                        /\ u \notin processingModules
                        /\ u \notin DOMAIN transformationPromises
                        /\ u \notin DOMAIN cache
                        /\ \A loc \in DOMAIN disk :
                            /\ disk[loc].banner # u
                            /\ u \in DOMAIN files => disk[loc].body # files[u].body

\* C15 witness: a top-level call for a module whose source does not exist
\* has failed.
C15_Witness ==
    \E c \in 1..Len(calls) :
        /\ calls[c].specifier \notin DOMAIN files
        /\ calls[c].pc = "failed"
        /\ calls[c].tid # 0 /\ ReadFailed(calls[c].tid)

\* C16: once import(s) has resolved, the memory cache keeps the module it
\* resolved to, and every later import(s) resolves at once to that module
\* without a transformation, a source read or a disk write.
C16_MemoryCacheHit ==
    [][/\ \A s \in DOMAIN cache : s \in DOMAIN cache' /\ cache'[s] = cache[s]
       /\ \A c \in 1..Len(calls) :
            calls[c].specifier \in DOMAIN cache /\ calls[c].pc = "done"
                => calls'[c] = calls[c]
       /\ (Len(calls') = Len(calls) + 1 /\ calls'[Len(calls')].specifier \in DOMAIN cache)
            => /\ calls'[Len(calls')].pc = "done"
               /\ calls'[Len(calls')].val = cache[calls'[Len(calls')].specifier]
               /\ calls'[Len(calls')].tid = 0
               /\ tasks' = tasks /\ disk' = disk
               /\ transformedModules' = transformedModules
               /\ processingModules' = processingModules]_vars

\* C16 witness: a module was imported, and a later import of the same
\* specifier was answered from the memory cache.
C16_Witness ==
    \E c1, c2 \in 1..Len(calls) :
        /\ c1 < c2
        /\ calls[c1].specifier = calls[c2].specifier
        /\ calls[c1].pc = "done" /\ ~calls[c1].hit
        /\ calls[c2].pc = "done" /\ calls[c2].hit
        /\ calls[c2].val = calls[c1].val
        /\ ReadsOf(tasks, calls[c1].specifier) = 1

\* ------------------------------------------------------------------ claims about the effective import map
KeysOf(pairs) == {pairs[i][1] : i \in 1..Len(pairs)}
ValueOf(pairs, key) == pairs[CHOOSE i \in 1..Len(pairs) : pairs[i][1] = key][2]
\* A deno.json was looked for and found, and its map merged.
Merged == dDone /\ dLooked /\ dConfig # <<>>
InstImports == IF dInst = <<>> THEN <<>> ELSE dInst[1].imports
InstScopes == IF dInst = <<>> THEN <<>> ELSE dInst[1].scopes

\* C17 (as stated): when a discovered deno.json map is merged with the map
\* the caller configured, the caller's entry wins for every key in both.
C17_CallerWins ==
    Merged =>
        \A k \in KeysOf(InstImports) \cap KeysOf(dConfig[1].imports) :
            ValueOf(dOut[1].imports, k) = ValueOf(InstImports, k)

\* C17 (amended): when a discovered deno.json map is merged with the map
\* the caller configured, the deno.json entry wins for every key in both,
\* in the imports and in the scopes.
C17_DiscoveredWins ==
    Merged =>
        /\ \A k \in KeysOf(InstImports) \cap KeysOf(dConfig[1].imports) :
            ValueOf(dOut[1].imports, k) = ValueOf(dConfig[1].imports, k)
        /\ \A k \in KeysOf(InstScopes) \cap KeysOf(dConfig[1].scopes) :
            ValueOf(dOut[1].scopes, k) = ValueOf(dConfig[1].scopes, k)

\* C17 witness: the instance maps "@x" to A, the deno.json found maps it to
\* B, and the merged map has B.
C17_Witness ==
    /\ Merged
    /\ KeyX \in KeysOf(InstImports) /\ ValueOf(InstImports, KeyX) = <<"A">>
    /\ KeyX \in KeysOf(dConfig[1].imports) /\ ValueOf(dConfig[1].imports, KeyX) = <<"B">>
    /\ ValueOf(dOut[1].imports, KeyX) = <<"B">>

\* C18: when import() finds a deno.json for a local module, the effective
\* import map has exactly the keys of the instance's map and of the
\* deno.json map, each key of the deno.json with the deno.json value and
\* every other key with the instance's value.
C18_MergedKeys ==
    Merged =>
        /\ KeysOf(dOut[1].imports) = KeysOf(InstImports) \cup KeysOf(dConfig[1].imports)
        /\ KeysOf(dOut[1].scopes) = KeysOf(InstScopes) \cup KeysOf(dConfig[1].scopes)
        /\ \A k \in KeysOf(dOut[1].imports) :
            ValueOf(dOut[1].imports, k) =
                IF k \in KeysOf(dConfig[1].imports) THEN ValueOf(dConfig[1].imports, k)
                ELSE ValueOf(InstImports, k)
        /\ Len(dOut[1].imports) = Cardinality(KeysOf(dOut[1].imports))

\* C18 witness: the instance maps "@x" and "@y" to B, the deno.json found
\* maps "@x" to A, and the effective map has "@x" -> A and "@y" -> B.
C18_Witness ==
    /\ Merged
    /\ InstImports = << <<KeyX, <<"B">>>>, <<KeyY, <<"B">>>> >>
    /\ dConfig[1].imports = << <<KeyX, <<"A">>>> >>
    /\ dOut[1].imports = << <<KeyX, <<"A">>>>, <<KeyY, <<"B">>>> >>

\* C19: a call of import() that is given an import map resolves the
\* module's imports with exactly that map: the module it ends with was
\* transformed under the call's own map, not under the map of an earlier
\* import or of the instance.
C19_ExplicitMapUsed ==
    \A c \in 1..Len(calls) :
        calls[c].pc \in {"load", "done"}
            => \E t \in 1..Len(tasks) :
                /\ tasks[t].url = calls[c].specifier
                /\ tasks[t].cacheUrl = calls[c].val
                /\ tasks[t].map = calls[c].map

\* C20: deno.json is looked up only when autoDiscoverImportMap is enabled,
\* no per-call import map is given and the module URL is a file: URL; for
\* an http/https module, or with autoDiscoverImportMap disabled, nothing is
\* looked up and the map used is the configured one (the per-call map, else
\* the instance's map), whatever a deno.json would hold.
C20_DiscoveryGate ==
    dDone =>
        LET isFile == Len(dUrl) >= 5 /\ SubSeq(dUrl, 1, 5) = <<"f", "i", "l", "e", ":">>
            configured == IF dCall # <<>> THEN dCall ELSE dInst
        IN  /\ dLooked => (dAuto /\ dCall = <<>> /\ isFile)
            /\ (~dAuto \/ ~isFile) => (~dLooked /\ dOut = configured)

\* A remote module with discovery enabled, no per-call map and a deno.json
\* that would add entries: it is not looked up and the instance's map is used.
C20_Witness ==
    /\ dDone
    /\ dAuto
    /\ dCall = <<>>
    /\ dConfig # <<>>
    /\ dInst # <<>>
    /\ dConfig # dInst
    /\ SubSeq(dUrl, 1, 5) = <<"h", "t", "t", "p", "s">>
    /\ ~dLooked
    /\ dOut = dInst

\* C21: the transpile mode is the explicit options.mode when given, else the
\* DENO_TS_IMPORTER_TRANSPILE_MODE environment variable when set, else
\* "strip"; an explicit mode overrides the environment variable.
C21_ModeChoice ==
    xDone =>
        /\ \A m \in OptionModes : xOptMode = <<m>> => xMode = m
        /\ \A v \in EnvValues : (xOptMode = <<>> /\ xEnv = <<v>>) => xMode = v
        /\ (xOptMode = <<>> /\ xEnv = <<>>) => xMode = "strip"
        /\ (xOptMode = <<"passthrough">>) => xOut = xCode
        /\ (xOptMode \in {<<"strip">>, <<"transpile">>}) => ~xOut.typed

\* The explicit mode and the environment variable disagree and the explicit
\* one is applied: passthrough against transpile, on a typed text.
C21_Witness ==
    /\ xDone
    /\ xOptMode = <<"passthrough">>
    /\ xEnv = <<"transpile">>
    /\ xCode.typed
    /\ xMode = "passthrough"
    /\ xOut = xCode

\* C22: in passthrough mode the transpiler returns its input text unchanged,
\* for every input.
C22_PassthroughIdentity ==
    (xDone /\ xMode = "passthrough") => xOut = xCode

\* A typed text with an import and an import.meta reference comes back as
\* it went in, the mode coming from the environment variable.
C22_Witness ==
    /\ xDone
    /\ xOptMode = <<>>
    /\ xEnv = <<"passthrough">>
    /\ xCode.typed
    /\ xCode.imports # <<>>
    /\ xCode.meta = "ref"
    /\ xOut = xCode

\* ------------------------------------------------------------------ claims about in-flight state
PendingUrls == {tasks[t].url : t \in {i \in 1..Len(tasks) : tasks[i].status = "pending"}}

\* C23: a transformation removes its in-flight marker and its pending-result
\* entry when it ends, on success and on every failure path: the in-flight
\* set and the keys of the pending-result map are exactly the modules with a
\* running transformation, and both are empty when none is running.
C23_InFlightCleanup ==
    /\ processingModules = PendingUrls
    /\ DOMAIN transformationPromises = PendingUrls
    /\ \A u \in DOMAIN transformationPromises :
           tasks[transformationPromises[u]].url = u
           /\ tasks[transformationPromises[u]].status = "pending"
    /\ (PendingUrls = {}) => (processingModules = {} /\ transformationPromises = <<>>)

\* Transformations have ended in both ways, one with its text written and
\* one after a failure past its read, and nothing is running.
C23_Witness ==
    /\ PendingUrls = {}
    /\ \E t \in 1..Len(tasks) : tasks[t].status = "fulfilled"
    /\ \E t \in 1..Len(tasks) : tasks[t].status = "rejected" /\ tasks[t].url \in DOMAIN files
    /\ processingModules = {}
    /\ transformationPromises = <<>>

\* The running transformation of a module.
PendingOf(u) == CHOOSE t \in 1..Len(tasks) : tasks[t].url = u /\ tasks[t].status = "pending"
InFlightNoRecord(u) == u \in processingModules /\ u \notin DOMAIN transformedModules

\* C24: a request for a module that is in flight and has no transformation
\* record yet, made by import() or for a dependency, receives the pending
\* result of the transformation already running and starts no second one;
\* everyone waiting on one pending result gets its cache location, or fails
\* when it fails.
C24_JoinsInFlight ==
    /\ [][\A c \in 1..Len(calls) :
            (/\ calls[c].pc = "start" /\ calls'[c].pc = "await"
             /\ InFlightNoRecord(calls[c].specifier))
                => /\ tasks' = tasks
                   /\ calls'[c].tid = PendingOf(calls[c].specifier)]_vars
    /\ [][\A t \in 1..Len(tasks) :
            (tasks[t].pc = "pass1" /\ tasks'[t].pc = "deps")
                => \A i \in 1..Len(tasks'[t].waits) :
                       LET u == tasks'[t].waits[i].url
                       IN  (InFlightNoRecord(u) /\ u # tasks[t].url)
                               => /\ tasks'[t].waits[i].tid = PendingOf(u)
                                  /\ \A n \in (Len(tasks) + 1)..Len(tasks') :
                                         tasks'[n].url # u]_vars
    /\ [](\A c \in 1..Len(calls) :
            (calls[c].tid # 0 /\ calls[c].pc \in {"load", "done", "failed"})
                => /\ tasks[calls[c].tid].url = calls[c].specifier
                   /\ tasks[calls[c].tid].status = "fulfilled"
                          => calls[c].val = tasks[calls[c].tid].value
                   /\ tasks[calls[c].tid].status = "rejected"
                          => calls[c].pc = "failed")

\* Two calls of import() for one module share one pending result: the
\* module was read once and both calls hold the same cache location.
C24_Witness ==
    /\ Len(calls) = 2
    /\ calls[1].tid # 0
    /\ calls[1].tid = calls[2].tid
    /\ calls[1].pc \in {"load", "done"}
    /\ calls[2].pc \in {"load", "done"}
    /\ calls[1].val = calls[2].val
    /\ ReadsOf(tasks, calls[1].specifier) = 1

\* C25: under any interleaving of top-level and dependency requests on one
\* instance, each module is transformed exactly once: its source is never
\* read a second time.
C25_ReadOnce ==
    \A t1, t2 \in 1..Len(tasks) : tasks[t1].url = tasks[t2].url => t1 = t2

\* C25 as the code has it: a second transformation of a module is started,
\* and its source read again, only after every earlier transformation of it
\* has failed; a module with a transformation running or completed is never
\* read again, under any interleaving.
C25_ReadOnceUnlessFailed ==
    \A t1, t2 \in 1..Len(tasks) :
        (t1 < t2 /\ tasks[t1].url = tasks[t2].url) => tasks[t1].status = "rejected"

\* Requests arrived for one module from import() twice and from a dependent
\* module, and it was read once; another module was read a second time after
\* its first transformation had failed.
C25_Witness ==
    /\ \E u \in DOMAIN files :
        /\ ReadsOf(tasks, u) = 1
        /\ \E t \in 1..Len(tasks) : tasks[t].url # u /\ WaitsOn(tasks[t], u) # {}
        /\ \E c \in 1..Len(calls) : calls[c].specifier = u /\ calls[c].pc # "start"
    /\ \E t1, t2 \in 1..Len(tasks) :
        t1 < t2 /\ tasks[t1].url = tasks[t2].url /\ tasks[t1].status = "rejected"

\* ------------------------------------------------------------------ claims about the record
\* C26: once a transformation record is set for a module it is never changed
\* or removed, and every later request for the module, from import() or from
\* a dependent module, a cyclic reference to a module still in flight
\* included, is answered with the recorded location.
C26_RecordStable ==
    [][\A u \in DOMAIN transformedModules :
        /\ u \in DOMAIN transformedModules'
        /\ transformedModules'[u] = transformedModules[u]
        /\ \A c \in 1..Len(calls) :
            (calls[c].pc = "start" /\ calls'[c].pc = "await" /\ calls[c].specifier = u)
                => calls'[c].tid = 0 /\ calls'[c].val = transformedModules[u]
        /\ \A t \in 1..Len(tasks) :
            (tasks[t].pc = "pass1" /\ tasks'[t].pc = "deps")
                => \A i \in WaitsOn(tasks'[t], u) :
                    /\ tasks'[t].waits[i].tid = 0
                    /\ tasks'[t].waits[i].val = transformedModules[u]]_vars

\* A module of a cycle asked for a module that was still in flight and got
\* the location recorded for it.
C26_Witness ==
    \E t, t0 \in 1..Len(tasks) : \E i \in 1..Len(tasks[t].waits) :
        /\ t # t0
        /\ tasks[t0].url = tasks[t].waits[i].url
        /\ tasks[t0].status = "pending"
        /\ tasks[t0].url \in DOMAIN transformedModules
        /\ tasks[t].waits[i].tid = 0
        /\ tasks[t].waits[i].val = transformedModules[tasks[t0].url]

ScopesWithMatch == {i \in ActiveScopes : ScopeRuleMatches(i) # {}}

\* C28: when several scopes match the requesting module's location they are
\* consulted longest prefix first: with no direct entry matching, the result
\* comes from an entry of the longest active scope that has a matching
\* entry, in whatever order the scopes were inserted.
C28_LongestScopeFirst ==
    (rDone /\ DirectRuleMatches = {} /\ ScopesWithMatch # {})
        => \E i \in ScopesWithMatch :
            /\ \A k \in ScopesWithMatch : Len(rScopes[k][1]) <= Len(rScopes[i][1])
            /\ \E j \in ScopeRuleMatches(i) : rOut = RuleApply(rScopes[i][2][j], rSpec)

\* ------------------------------------------------------------------ claims about the fast path
\* The text of the module after the type annotations are removed.
Stripped(u) == transpileTypeScript(files[u], tsTranspileMode)
\* The module's stripped text has no import/export statement and no
\* reference to its own location.
Plain(u) == u \in DOMAIN files /\ Stripped(u).imports = <<>> /\ Stripped(u).meta = "none"

C30_ImportsAreProcessed ==
    \A t \in 1..Len(tasks) :
        (tasks[t].status = "fulfilled" /\ Stripped(tasks[t].url).imports # <<>>) =>
            \A k \in 1..Len(Stripped(tasks[t].url).imports) :
                LET s == Stripped(tasks[t].url).imports[k].s
                IN  isRelativeOrFileUrl(s) =>
                        /\ \E i \in 1..Len(tasks[t].waits) :
                               tasks[t].waits[i].url = ResolveUrl(s, tasks[t].url)
                        /\ tasks[t].code.imports[k].s # s

\* ------------------------------------------------------------------ claims about remote dependencies
\* C31: a module starts a transformation only for resolved specifiers that
\* refer to local modules (relative paths or file: URLs): for a dependency
\* whose resolved specifier is remote or registry-style nothing is asked
\* for, read or written, so every transformation is of a file: module.
C31_OnlyLocalRecursion ==
    /\ \A t \in 1..Len(tasks) : \A i \in 1..Len(tasks[t].waits) :
           isRelativeOrFileUrl(tasks[t].waits[i].spec)
    /\ \A t \in 1..Len(tasks) : StartsWith(tasks[t].url, FilePfx)
    /\ \A loc \in DOMAIN disk : \A u \in DOMAIN files :
           (disk[loc].body = files[u].body) => StartsWith(u, FilePfx)

C33_InitOnce ==
    /\ initCalls <= 1
    /\ \A k \in 1..Len(callers) :
        /\ callers[k].pc = "await" => (initCalls = 1 /\ initializationPromise # "null")
        /\ callers[k].pc \in {"ready", "graph"} =>
               (initCalls = 1 /\ initializationPromise = "fulfilled" /\ denoGraphInitialized)
        /\ callers[k].pc = "graph" => callers[k].initialized
        /\ callers[k].pc = "failed" => initializationPromise = "rejected"

\* Every caller of the bound built its graph on the one initialization.
C33_Witness ==
    /\ initCalls = 1
    /\ Len(callers) = MaxCallers
    /\ \A k \in 1..Len(callers) : callers[k].pc = "graph" /\ callers[k].initialized

\* ------------------------------------------------------------------ claims about waiting
\* The transformations a transformation is waiting for at its barrier.
Awaited(x) ==
    IF tasks[x].status = "pending" /\ tasks[x].pc = "deps"
    THEN {tasks[x].waits[i].tid : i \in 1..Len(tasks[x].waits)}
             \cap {y \in 1..Len(tasks) : tasks[y].status = "pending"}
    ELSE {}

\* The transformations reached from x along at most k awaits, k >= 1.
RECURSIVE AwaitedWithin(_, _)
AwaitedWithin(x, k) ==
    IF k = 1 THEN Awaited(x)
    ELSE LET near == AwaitedWithin(x, k - 1)
         IN  near \cup UNION {Awaited(y) : y \in near}

\* C34: the waits-for relation between the transformations in flight never
\* contains a cycle: a transformation awaits others only once its own
\* record is registered, and a request for a registered module is answered
\* from the record, never with a pending result.
C34_NoWaitCycle ==
    /\ [](\A x \in 1..Len(tasks) :
            /\ x \notin AwaitedWithin(x, MaxTasks)
            /\ Awaited(x) # {} => tasks[x].url \in DOMAIN transformedModules)
    /\ [][\A x \in 1..Len(tasks) :
            (tasks[x].pc = "pass1" /\ tasks'[x].pc = "deps")
                => \A i \in 1..Len(tasks'[x].waits) :
                       LET w == tasks'[x].waits[i]
                       IN  (w.url \in DOMAIN transformedModules \/ w.url = tasks[x].url)
                               => w.tid = 0]_vars

\* Two modules of a cycle are in flight at once, each started by its own
\* request: one waits for the other, which was answered from the record of
\* the first and waits for nothing in flight.
C34_Witness ==
    \E x, y \in 1..Len(tasks) :
        /\ x # y
        /\ y \in Awaited(x)
        /\ tasks[y].pc = "deps"
        /\ \E i \in WaitsOn(tasks[y], tasks[x].url) : tasks[y].waits[i].tid = 0
        /\ Awaited(y) = {}

\* C35: in every state another request can observe, a module is in the
\* in-flight set if and only if the pending-result map has an entry for it;
\* so no request, from import() or for a dependency, is ever answered
\* without a promise by anything but the module's transformation record:
\* the branch returning the module's own URL is never taken.
C35_InFlightIffPending ==
    /\ [](processingModules = DOMAIN transformationPromises)
    /\ [][\A c \in 1..Len(calls) :
            (calls[c].pc = "start" /\ calls'[c].pc = "await" /\ calls'[c].tid = 0)
                => /\ calls[c].specifier \in DOMAIN transformedModules
                   /\ calls'[c].val = transformedModules[calls[c].specifier]
                   /\ calls'[c].val # calls[c].specifier]_vars
    /\ [][\A t \in 1..Len(tasks) :
            (tasks[t].pc = "pass1" /\ tasks'[t].pc = "deps")
                => \A i \in 1..Len(tasks'[t].waits) :
                       LET w == tasks'[t].waits[i]
                       IN  w.tid = 0
                               => /\ w.url \in DOMAIN transformedModules'
                                  /\ w.val = transformedModules'[w.url]
                                  /\ w.val # w.url]_vars

\* A module is in flight without a record, with its pending result in the
\* map, while a second import() of it and a dependent module both hold
\* that pending result.
C35_Witness ==
    \E u \in processingModules :
        /\ u \notin DOMAIN transformedModules
        /\ u \in DOMAIN transformationPromises
        /\ \E c \in 1..Len(calls) :
              calls[c].pc = "await" /\ calls[c].specifier = u
              /\ calls[c].tid = transformationPromises[u]
        /\ \E t \in 1..Len(tasks) :
              /\ tasks[t].pc = "deps" /\ tasks[t].url # u
              /\ \E i \in WaitsOn(tasks[t], u) :
                    tasks[t].waits[i].tid = transformationPromises[u]

\* ------------------------------------------------------------------ claims about the persisted text
\* A specifier that is resolved against the importing file.
IsRelative(s) == s # <<>> /\ s[1] \in {".", "/"}
\* The module went through dependency processing.
Processed(t) ==
    tasks[t].url \in DOMAIN files
    /\ (hasImports(Stripped(tasks[t].url)) \/ hasImportMetaUrl(Stripped(tasks[t].url)))

\* C36: in the text persisted for a module that went through dependency
\* processing, every import of a local dependency is an absolute URL, the
\* dependency's cache location, or its resolved original location when its
\* transformation failed, and no relative specifier is left, in the text
\* the transformation wrote and in every such text in the cache directory.
C36_LocalImportsAbsolute ==
    /\ \A t \in 1..Len(tasks) :
        (tasks[t].status = "fulfilled" /\ Processed(t)) =>
            /\ \A k \in 1..Len(tasks[t].code.imports) :
                   ~IsRelative(tasks[t].code.imports[k].s)
            /\ \A i \in 1..Len(tasks[t].waits) : \A k \in 1..Len(tasks[t].code.imports) :
                   LET w == tasks[t].waits[i]
                       s == tasks[t].code.imports[k].s
                   IN  (isRelativeOrFileUrl(w.spec) /\ FirstPassSpecifier(t, k) = w.spec) =>
                           \/ IsCacheUrl(s) /\ s = WaitValue(tasks, w)
                           \/ /\ w.tid # 0 /\ tasks[w.tid].status = "rejected"
                              /\ s = ResolveUrl(w.spec, tasks[t].url)
                              /\ StartsWith(s, FilePfx)
    /\ \A loc \in DOMAIN disk :
        disk[loc].banner # <<>> =>
            \A k \in 1..Len(disk[loc].imports) : ~IsRelative(disk[loc].imports[k].s)

\* A module importing a relative specifier and a bare one that the table
\* sends to a relative path was persisted: the first dependency was
\* transformed and is imported from its cache location, the second failed
\* and is imported from its resolved file: URL.
C36_Witness ==
    \E t \in 1..Len(tasks) :
        /\ tasks[t].status = "fulfilled" /\ Processed(t)
        /\ tasks[t].value \in DOMAIN disk
        /\ \E k \in 1..Len(tasks[t].code.imports) :
              /\ IsRelative(files[tasks[t].url].imports[k].s)
              /\ IsCacheUrl(disk[tasks[t].value].imports[k].s)
        /\ \E k \in 1..Len(tasks[t].code.imports) :
              /\ ~isRelativeOrFileUrl(files[tasks[t].url].imports[k].s)
              /\ IsRelative(FirstPassSpecifier(t, k))
              /\ disk[tasks[t].value].imports[k].s =
                     ResolveUrl(FirstPassSpecifier(t, k), tasks[t].url)
              /\ StartsWith(disk[tasks[t].value].imports[k].s, FilePfx)

\* ------------------------------------------------------------------ claims about the order of the direct table
\* C37: within the direct table the lookup applies the first entry, in
\* table order, whose key matches, and no later one, also when a later key
\* is a longer match for the specifier.
C37_FirstDirectEntry ==
    rDone =>
        \A i, j \in DirectRuleMatches :
            (/\ i < j
             /\ \A k \in DirectRuleMatches : i <= k
             /\ Len(rImports[j][1]) > Len(rImports[i][1]))
                => /\ rOut = RuleApply(rImports[i], rSpec)
                   /\ rOut # RuleApply(rImports[j], rSpec)

\* "@x/s/y" was looked up in the table with the keys "@x" and "@x/s", in
\* this order, and the result comes from "@x".
C37_Witness ==
    /\ rDone
    /\ rImports = << <<KeyX, <<"A">>>>, <<KeyXSub, <<"D">>>> >>
    /\ rSpec = KeyXSub \o <<"/", "y">>
    /\ rOut = <<"A", "/", "s", "/", "y">>

\* ------------------------------------------------------------------ claims about applyReplacements
\* The replacement whose span starts at position p of line l, if any.
StartingAt(l, p) ==
    {i \in 1..Len(aReplacements) :
        aReplacements[i].startLine = l /\ aReplacements[i].startChar = p}
\* Position p of line l lies inside a span.
Covered(l, p) ==
    \E i \in 1..Len(aReplacements) :
        /\ aReplacements[i].startLine = l
        /\ aReplacements[i].startChar <= p /\ p < aReplacements[i].endChar
\* What stands in the result for position p of line l: the quoted new
\* specifier where a span starts, nothing inside a span, the character
\* itself elsewhere.
Piece(l, p) ==
    IF StartingAt(l, p) # {}
    THEN <<"\"">> \o aReplacements[CHOOSE i \in StartingAt(l, p) : TRUE].newSpecifier \o <<"\"">>
    ELSE IF Covered(l, p) THEN <<>>
    ELSE <<Split(aSource)[l + 1][p + 1]>>
RECURSIVE Pieces(_, _)
Pieces(l, p) ==
    IF p >= Len(Split(aSource)[l + 1]) THEN <<>>
    ELSE Piece(l, p) \o Pieces(l, p + 1)
ExpectedText == Join([l \in 1..Len(Split(aSource)) |-> Pieces(l - 1, 0)])

\* C38: for non-overlapping spans that each lie on one line, the result of
\* applyReplacements is the text with every span replaced by its new
\* specifier in double quotes and every other character as it was, in
\* whatever order the replacements are listed and also with several spans
\* on one line.
C38_SpansReplaced ==
    aDone => aOut = ExpectedText

\* Three replacements that change the length of the text were applied, two
\* of them on one line and listed first span first.
C38_Witness ==
    /\ aDone
    /\ Len(aReplacements) = 3
    /\ aReplacements[1].startLine = aReplacements[2].startLine
    /\ aReplacements[1].startChar < aReplacements[2].startChar
    /\ aReplacements[3].startLine # aReplacements[1].startLine
    /\ aReplacements[1].newSpecifier = <<"L", "O", "N", "G">>
    /\ aOut # aSource
    /\ aOut = ExpectedText

====
